---- MODULE Spec2Model ----
(***************************************************************************)
(* Blink-DB storage engine (src/src/engine): the LSM coordinator LSMTree,  *)
(* its MemTable / SkipList write buffer, the SS_Table files, and the two   *)
(* background workers (flush, compaction).                                 *)
(*                                                                         *)
(* Keys, values and file names are byte strings, modelled as sequences of  *)
(* byte values and compared as std::string compares them.                  *)
(***************************************************************************)
EXTENDS Integers, Sequences, FiniteSets, TLC

(***************************************************************************)
(* Bounds of the model.                                                    *)
(***************************************************************************)
\* Number of short entries that fill a memtable (scales MAX_MEMTABLE_SIZE).
RotateAfter == 1
\* Number of SSTables that triggers compaction (scales MAX_SSTABLE_COUNT).
CompactAt == 2
\* Callers make at most MaxWrites put/remove calls in a run.
MaxWrites == 3

(***************************************************************************)
(* Byte strings.                                                           *)
(***************************************************************************)
EmptyString == << >>

\* constants.hpp: #define TOMBSTONE "\xFF\xFF\xFF\xFF"
TOMBSTONE == <<255, 255, 255, 255>>

\* std::string operator< : lexicographic comparison of byte sequences.
StrLess(a, b) ==
    \E i \in 1..Len(b) :
        /\ i - 1 <= Len(a)
        /\ \A j \in 1..(i - 1) : a[j] = b[j]
        /\ (i > Len(a) \/ a[i] < b[i])

StrLeq(a, b) == a = b \/ StrLess(a, b)

\* The keys and values callers use: the empty key and "a"; values "1", "2".
KeyA == <<97>>
Keys == {EmptyString, KeyA}
PutValues == {<<49>>, <<50>>}

\* std::pair<bool, std::string>
Pair(f, v) == [found |-> f, value |-> v]
Absent == Pair(FALSE, EmptyString)
Deleted == Pair(FALSE, TOMBSTONE)

(***************************************************************************)
(* KeyValuePair::size                                                      *)
(***************************************************************************)
\* sizeof(std::string) and the capacity of a short string (libstdc++, 64 bit).
SizeofString == 32
SsoCapacity == 15
Capacity(s) == IF Len(s) <= SsoCapacity THEN SsoCapacity ELSE Len(s)
KVSize(k, v) == SizeofString * 2 + Capacity(k) + Capacity(v)

\* constants.hpp: the 32 MiB threshold, scaled to RotateAfter short entries.
MAX_MEMTABLE_SIZE == RotateAfter * KVSize(KeyA, EmptyString)
\* constants.hpp: the threshold of 100 SSTables, scaled to CompactAt.
MAX_SSTABLE_COUNT == CompactAt

(***************************************************************************)
(* SkipList: the base level.  nodes are the NORMAL nodes of the base level *)
(* in list order; index 0 stands for the base-level head sentinel, whose   *)
(* data is KeyValuePair() (key "", value headValue).  The upper levels     *)
(* hold copies of keys only and every search ends on the base level.       *)
(***************************************************************************)
SL_new == [nodes |-> << >>, headValue |-> EmptyString, totalSize |-> 0]

NodeKey(sl, i) == IF i = 0 THEN EmptyString ELSE sl.nodes[i].key
NodeValue(sl, i) == IF i = 0 THEN sl.headValue ELSE sl.nodes[i].value

\* search: advance while the next node is not the tail and its key <= key.
RECURSIVE SL_advance(_, _, _)
SL_advance(sl, cur, key) ==
    IF cur + 1 <= Len(sl.nodes) /\ StrLeq(sl.nodes[cur + 1].key, key)
    THEN SL_advance(sl, cur + 1, key)
    ELSE cur

SL_search(sl, key) == SL_advance(sl, 0, key)

SL_get(sl, key) ==
    LET cur == SL_search(sl, key)
    IN  IF NodeKey(sl, cur) = key
        THEN Pair(TRUE, NodeValue(sl, cur))
        ELSE Pair(FALSE, EmptyString)

\* A faulty variant of the base-level link step that links every new node
\* at the end of the list.
InsertAfter_atEnd(s, i, e) == Append(s, e)

InsertAfter(s, i, e) ==
    SubSeq(s, 1, i) \o <<e>> \o SubSeq(s, i + 1, Len(s))

SL_put(sl, key, value) ==
    LET cur == SL_search(sl, key)
    IN  IF NodeKey(sl, cur) = key
        THEN IF cur = 0
             THEN [sl EXCEPT !.headValue = value]
             ELSE [sl EXCEPT !.nodes[cur].value = value]
        ELSE [sl EXCEPT !.nodes = InsertAfter(sl.nodes, cur, [key |-> key, value |-> value]),
                        !.totalSize = sl.totalSize + KVSize(key, value)]

\* begin() .. end(): the NORMAL nodes of the base level, the head excluded.
SL_entries(sl) == sl.nodes

(***************************************************************************)
(* MemTable                                                                *)
(***************************************************************************)
Mem_new == SL_new
Mem_put(m, key, value) == SL_put(m, key, value)
Mem_getSize(m) == m.totalSize

Mem_get(m, key) ==
    LET result == SL_get(m, key)
    IN  IF ~result.found THEN Pair(FALSE, EmptyString)
        ELSE IF result.value = TOMBSTONE THEN Pair(FALSE, result.value)
        ELSE Pair(TRUE, result.value)

(***************************************************************************)
(* SS_Table: the pair of files <stem>.index / <stem>.data and the handle.  *)
(* A file pair is [hasIndex, count, index, hasData, data]: whether the    *)
(* index file exists, its header (-1: the file holds no header) and its    *)
(* entries; whether the data file exists, and its records.  NoFile:        *)
(* neither file exists.                                                    *)
(***************************************************************************)
KEYS_PER_INDEX_ENTRY == 10

NoFile == [hasIndex |-> FALSE, count |-> -1, index |-> << >>,
           hasData |-> FALSE, data |-> << >>]

\* A faulty variant of the offset step that leaves out the value_size field.
RecordSize_noValueSize(e) == 4 + Len(e.key) + Len(e.value)

\* A data record: u32 key_size, key, u32 value_size, value.
RecordSize(e) == 4 + Len(e.key) + 4 + Len(e.value)

\* Byte offset at which record i (1-based) begins.
RECURSIVE OffsetOf(_, _)
OffsetOf(entries, i) ==
    IF i <= 1 THEN 0
    ELSE OffsetOf(entries, i - 1) + RecordSize(entries[i - 1])

\* createFromMemTable: one index entry for records 0, 10, 20, ... and one
\* data record per entry of the memtable's in-order traversal.
SST_createFromMemTable(memTable) ==
    LET entries == SL_entries(memTable)
        sparse_index_count ==
            (Len(entries) + KEYS_PER_INDEX_ENTRY - 1) \div KEYS_PER_INDEX_ENTRY
        indexed == {i \in 0..(Len(entries) - 1) : i % KEYS_PER_INDEX_ENTRY = 0}
    IN  [hasIndex |-> TRUE,
         count |-> sparse_index_count,
         index |-> [j \in 1..Cardinality(indexed) |->
                      LET i == (j - 1) * KEYS_PER_INDEX_ENTRY + 1
                      IN  [key |-> entries[i].key, offset |-> OffsetOf(entries, i)]],
         hasData |-> TRUE,
         data  |-> entries]

\* createFromMemTable on the file pair `old`, lines 91-96 included: both
\* ofstreams are constructed (each one that opens creates or truncates its
\* file) before the test that returns false unless both are open.
SST_createFiles(old, memTable, indexOpens, dataOpens) ==
    IF indexOpens /\ dataOpens THEN SST_createFromMemTable(memTable)
    ELSE [hasIndex |-> old.hasIndex \/ indexOpens,
          count |-> IF indexOpens THEN -1 ELSE old.count,
          index |-> IF indexOpens THEN << >> ELSE old.index,
          hasData |-> old.hasData \/ dataOpens,
          data |-> IF dataOpens THEN << >> ELSE old.data]

\* What loadIndex may leave in `index` when the file holds no header: the
\* read of entries_count fails and the loop runs on an uninitialized count.
GarbageIndexes == {<< >>, <<[key |-> KeyA, offset |-> 0]>>}

\* loadIndex: the first `count` entries of the index file; `garbage` when
\* the header cannot be read.
SST_loadIndex(file, garbage) ==
    IF ~file.hasIndex THEN << >>
    ELSE IF file.count = -1 THEN garbage
    ELSE SubSeq(file.index, 1, IF file.count <= Len(file.index) THEN file.count
                               ELSE Len(file.index))

\* SS_Table(filename): the handle keeps the stem and the index it loaded;
\* loadIndex returns true whenever the index file opens.
SST_open(stem, dsk, garbage) ==
    [stem |-> stem, index |-> SST_loadIndex(dsk[stem], garbage),
     indexLoaded |-> dsk[stem].hasIndex]

\* findStartOffset: -1 stands for std::nullopt.
RECURSIVE SST_bsearch(_, _, _, _)
SST_bsearch(index, key, left, right) ==
    IF left < right
    THEN LET mid == left + (right - left + 1) \div 2
         IN  IF StrLeq(index[mid].key, key)
             THEN SST_bsearch(index, key, mid, right)
             ELSE SST_bsearch(index, key, left, mid - 1)
    ELSE index[left].offset

\* A faulty variant of findStartOffset that ignores the key and always
\* starts at the first index entry.
SST_findStartOffset_first(index, key) ==
    IF index = << >> THEN -1 ELSE index[1].offset

\* A faulty variant of findStartOffset: the first index entry whose key is
\* at or above the key (a lower bound) instead of the last one at or below.
SST_findStartOffset_lowerBound(index, key) ==
    IF index = << >> THEN -1
    ELSE LET at == {j \in 1..Len(index) : StrLeq(key, index[j].key)}
         IN  IF at = {} THEN index[Len(index)].offset
             ELSE index[CHOOSE j \in at : \A k \in at : j <= k].offset

SST_findStartOffset(index, key) ==
    IF index = << >> THEN -1
    ELSE IF StrLess(key, index[1].key) THEN index[1].offset
    ELSE SST_bsearch(index, key, 1, Len(index))

\* seekg(offset): the first record that begins at or after the offset
\* (Len + 1: end of file).
SeekRecord(data, offset) ==
    LET at == {i \in 1..Len(data) : OffsetOf(data, i) >= offset}
    IN  IF at = {} THEN Len(data) + 1
        ELSE CHOOSE i \in at : \A j \in at : i <= j

\* The scan loop of getValue, from record i.
RECURSIVE SST_scan(_, _, _)
SST_scan(data, i, key) ==
    IF i > Len(data) THEN Pair(FALSE, EmptyString)
    ELSE IF StrLess(key, data[i].key) THEN Pair(FALSE, EmptyString)
    ELSE IF data[i].key = key
         THEN IF data[i].value = TOMBSTONE THEN Pair(FALSE, data[i].value)
              ELSE Pair(TRUE, data[i].value)
    ELSE SST_scan(data, i + 1, key)

SST_getValue(sst, dsk, key) ==
    IF ~sst.indexLoaded THEN Pair(FALSE, EmptyString)
    ELSE LET start_offset == SST_findStartOffset(sst.index, key)
         IN  IF start_offset = -1 THEN Pair(FALSE, EmptyString)
             ELSE IF ~dsk[sst.stem].hasData THEN Pair(FALSE, EmptyString)
             ELSE SST_scan(dsk[sst.stem].data,
                           SeekRecord(dsk[sst.stem].data, start_offset), key)

\* The number of records whose key the scan loop of getValue reads, from
\* record i: the loop ends at end of file, at the first stored key greater
\* than the key, or at the key.
RECURSIVE SST_scanReads(_, _, _)
SST_scanReads(data, i, key) ==
    IF i > Len(data) THEN 0
    ELSE IF StrLess(key, data[i].key) THEN 1
    ELSE IF data[i].key = key THEN 1
    ELSE 1 + SST_scanReads(data, i + 1, key)

\* The number of those records of which the loop also reads the value.
RECURSIVE SST_scanValueReads(_, _, _)
SST_scanValueReads(data, i, key) ==
    IF i > Len(data) THEN 0
    ELSE IF StrLess(key, data[i].key) THEN 0
    ELSE IF data[i].key = key THEN 1
    ELSE 1 + SST_scanValueReads(data, i + 1, key)

\* getValue's reads: [keys, values], the records read after the seek.
SST_recordsRead(sst, dsk, key) ==
    IF ~sst.indexLoaded \/ SST_findStartOffset(sst.index, key) = -1
          \/ ~dsk[sst.stem].hasData
    THEN [keys |-> 0, values |-> 0]
    ELSE LET data == dsk[sst.stem].data
             first == SeekRecord(data, SST_findStartOffset(sst.index, key))
         IN  [keys |-> SST_scanReads(data, first, key),
              values |-> SST_scanValueReads(data, first, key)]

(***************************************************************************)
(* File names: SS_TABLE_PATH + "sstable_" + std::to_string(timestamp) +    *)
(* ".index".  Two names share everything but the digits, so they compare   *)
(* as the digit strings followed by '.' compare.                           *)
(***************************************************************************)
RECURSIVE to_string(_)
to_string(n) ==
    IF n < 10 THEN <<48 + n>>
    ELSE Append(to_string(n \div 10), 48 + (n % 10))

IndexFileName(stem) == to_string(stem) \o <<46>>

NameLess(a, b) == StrLess(IndexFileName(a), IndexFileName(b))

\* std::sort by getIndexFile(): insertion of each handle before the first
\* handle whose name is greater.
RECURSIVE SortByName(_)
SortByName(tables) ==
    IF tables = << >> THEN << >>
    ELSE LET rest == SortByName(SubSeq(tables, 1, Len(tables) - 1))
             t == tables[Len(tables)]
             before == {i \in 1..Len(rest) : ~NameLess(t.stem, rest[i].stem)}
         IN  InsertAfter(rest, Cardinality(before), t)

(***************************************************************************)
(* LSMTree: the state.                                                     *)
(***************************************************************************)
VARIABLES
    activeMemTable,     \* the active MemTable
    memTables,          \* sealed MemTables awaiting flush, oldest first
    sstables,           \* SS_Table handles, oldest first
    disk,               \* data directory: stem -> file pair or NoFile
    clock,              \* the last millisecond timestamp a worker read
    sameMs,             \* whether two file names may be taken in the same millisecond
    running,            \* std::atomic<bool> running
    faulty,             \* whether file creation may fail in this run
    fpc,                \* flush worker: position in flush_worker / flush_memtable
    memtable_to_flush,  \* flush worker: the memtable it popped (<< >>: none)
    fStem,              \* flush worker: the timestamp of its file name
    cpc,                \* compaction worker: position in compaction_worker / perform_compaction
    tables_to_compact,  \* compaction worker: the handles it took
    cStem,              \* compaction worker: the timestamp of the merged file
    dpc,                \* owner thread: position in ~LSMTree
    rpc,                \* a caller inside get: the layer it reads next
    rKey,               \* that caller's key
    rResult,            \* that caller's result
    rReads,             \* records a point lookup on one SSTable read
    rAllowed,           \* results a linearizable get may return (history)
    oracle,             \* per key, the result of its last completed write (history)
    flushedLast,        \* keys whose last write is in a memtable written as an SSTable (history)
    cBefore,            \* per key, get(k) right before the running compaction pass (history)
    cFromBatch,         \* keys whose newest version was in the batch when the pass took it (history)
    cBatch,             \* file names of the batch the pass took (history)
    cWritten,           \* keys written by callers since the pass began (history)
    nWrites,            \* number of put/remove calls made so far (history)
    sealOrder,          \* the rotation that sealed each memtable in flight (history)
    restarted           \* whether the process was restarted on the same directory

vars == <<activeMemTable, memTables, sstables, disk, clock, sameMs, running, faulty,
          fpc, memtable_to_flush, fStem, cpc, tables_to_compact, cStem, dpc,
          rpc, rKey, rResult, rReads, rAllowed, oracle, flushedLast, cBefore,
          cFromBatch, cBatch, cWritten, nWrites, sealOrder, restarted>>

storeVars == <<activeMemTable, memTables, sstables, disk, clock>>
flushVars == <<fpc, memtable_to_flush, fStem>>
compactVars == <<cpc, tables_to_compact, cStem>>
readerVars == <<rpc, rKey, rResult, rReads, rAllowed>>
passVars == <<cBefore, cFromBatch, cBatch, cWritten>>
historyVars == <<oracle, flushedLast, nWrites, sealOrder, restarted>>

\* The file names a run may take: a creation that succeeds follows a put
\* that rotated or a pass that took at least two files, so such a run takes
\* fewer than 2 * MaxWrites names; a run with failing creations is cut off
\* when the names are used up.
Stems == 1..(2 * MaxWrites)

\* system_clock::now() in milliseconds, the clock taken as monotonic: the
\* timestamps a worker may read after timestamp c was read.
Timestamps(c) == IF sameMs THEN {c, c + 1} \ {0} ELSE {c + 1}
NoMemTable == << >>

(***************************************************************************)
(* LSMTree::get, on given layers.                                          *)
(***************************************************************************)
\* A result that ends the lookup: (true, v) or (false, TOMBSTONE).
Definitive(result) == result.found \/ result.value = TOMBSTONE

\* The loop over memTables.rbegin() .. rend(), from position i down.
RECURSIVE GetSealedFrom(_, _, _)
GetSealedFrom(mts, i, key) ==
    IF i = 0 THEN Absent
    ELSE LET result == Mem_get(mts[i], key)
         IN  IF Definitive(result) THEN result
             ELSE GetSealedFrom(mts, i - 1, key)

GetSealed(mts, key) == GetSealedFrom(mts, Len(mts), key)

\* The loop over sstables.rbegin() .. rend(), from position i down.
RECURSIVE GetSSTablesFrom(_, _, _, _)
GetSSTablesFrom(ssts, dsk, i, key) ==
    IF i = 0 THEN Absent
    ELSE LET result == SST_getValue(ssts[i], dsk, key)
         IN  IF Definitive(result) THEN result
             ELSE GetSSTablesFrom(ssts, dsk, i - 1, key)

GetSSTables(ssts, dsk, key) == GetSSTablesFrom(ssts, dsk, Len(ssts), key)

\* get(key) evaluated on the layers (act, mts, ssts) with the files dsk.
GetIn(act, mts, ssts, dsk, key) ==
    LET r1 == Mem_get(act, key)
        r2 == GetSealed(mts, key)
    IN  IF Definitive(r1) THEN r1
        ELSE IF Definitive(r2) THEN r2
        ELSE GetSSTables(ssts, dsk, key)

\* get(key) evaluated on the current state.
Get(key) == GetIn(activeMemTable, memTables, sstables, disk, key)

(***************************************************************************)
(* Condition variables.  A worker is "blocked" inside wait(); a notify     *)
(* moves a blocked worker to "lock", where it re-acquires the mutex and    *)
(* re-evaluates its predicate.  A notify with no blocked worker is lost.   *)
(***************************************************************************)
Notified(pc) == IF pc = "blocked" THEN "lock" ELSE pc

\* Mutexes held across steps (every other critical section is one step).
FlushHoldsMemtablesMtx == fpc = "toWait"
CompactionHoldsCompactionMtx == cpc \in {"toWait", "take", "merge", "delete", "append", "sleep"}

(***************************************************************************)
(* Initial state: a store constructed on an empty data directory, with    *)
(* the sealed memtables `sealed` awaiting their flush.  A run fixes        *)
(* whether two file names may be taken within one millisecond and whether  *)
(* file creation may fail.                                                 *)
(***************************************************************************)
InitStore(sealed, mayShareMs, mayFail) ==
    /\ activeMemTable = Mem_new
    /\ memTables = sealed
    /\ sstables = << >>
    /\ disk = [s \in Stems |-> NoFile]
    /\ clock = 0
    /\ sameMs = mayShareMs
    /\ running = TRUE
    /\ faulty = mayFail
    /\ fpc = "loop"
    /\ memtable_to_flush = NoMemTable
    /\ fStem = 0
    /\ cpc = "loop"
    /\ tables_to_compact = << >>
    /\ cStem = 0
    /\ dpc = "alive"
    /\ rpc = "idle"
    /\ rKey = EmptyString
    /\ rResult = Absent
    /\ rReads = [keys |-> 0, values |-> 0]
    /\ rAllowed = {}
    /\ oracle = [k \in Keys |-> Absent]
    /\ flushedLast = {}
    /\ cBefore = [k \in Keys |-> Absent]
    /\ cFromBatch = {}
    /\ cBatch = {}
    /\ cWritten = {}
    /\ nWrites = 0
    /\ sealOrder = [sealed |-> 0, queue |-> [i \in 1..Len(sealed) |-> 0], flushing |-> 0,
                    list |-> << >>]
    /\ restarted = FALSE

\* A store just constructed: no sealed memtable yet.
InitWith(mayShareMs, mayFail) == InitStore(<< >>, mayShareMs, mayFail)

\* Distinct milliseconds for all file names, no I/O failure.
Init == InitWith(FALSE, FALSE)

(***************************************************************************)
(* Callers: put, remove.                                                   *)
(***************************************************************************)
CallersMayCall == dpc = "alive" /\ ~restarted
CallersMayWrite == CallersMayCall /\ nWrites < MaxWrites

\* The history of a completed write of (key, value).
Written(key, value) ==
    /\ oracle' = [oracle EXCEPT ![key] =
                    IF value = TOMBSTONE THEN Deleted ELSE Pair(TRUE, value)]
    /\ flushedLast' = flushedLast \ {key}
    /\ rAllowed' = IF rpc \notin {"idle", "done"} /\ rKey = key
                   THEN rAllowed \cup {IF value = TOMBSTONE THEN Deleted
                                       ELSE Pair(TRUE, value)}
                   ELSE rAllowed
    /\ cWritten' = IF cpc \in {"merge", "delete", "append", "sleep"}
                   THEN cWritten \cup {key} ELSE cWritten
    /\ nWrites' = nWrites + 1
    /\ UNCHANGED <<cBefore, cFromBatch, cBatch, restarted>>

\* The flush worker is at lines 76-87: it locks memtables_mtx, reads the
\* queue in the wait predicate and pops its front.
FlushAccessesQueue == fpc = "lock"

\* memTables.push_back in rotate_memtable runs under active_memtable_mtx
\* only.  A push that runs while the flush worker reads and pops the queue
\* is a data race on the deque: the push takes effect, or the worker's
\* update of the deque's bounds overwrites it and the pushed memtable is lost.
PushOutcomes == IF FlushAccessesQueue THEN BOOLEAN ELSE {TRUE}

\* rotate_memtable, on the active memtable `m` that put just wrote.
rotate_memtable(m) ==
    /\ \E pushed \in PushOutcomes :
          /\ memTables' = IF pushed THEN Append(memTables, m) ELSE memTables
          /\ sealOrder' = [sealOrder EXCEPT
                  !.sealed = @ + 1,
                  !.queue = IF pushed THEN Append(@, sealOrder.sealed + 1) ELSE @]
    /\ activeMemTable' = Mem_new
    /\ fpc' = Notified(fpc)

put(key, value) ==
    /\ CallersMayWrite
    /\ LET m == Mem_put(activeMemTable, key, value)
       IN  IF Mem_getSize(m) >= MAX_MEMTABLE_SIZE
           THEN rotate_memtable(m)
           ELSE /\ activeMemTable' = m
                /\ UNCHANGED <<memTables, fpc, sealOrder>>
    /\ Written(key, value)
    /\ UNCHANGED <<sstables, disk, clock, running, sameMs, faulty, memtable_to_flush, fStem,
                   compactVars, dpc, rpc, rKey, rResult, rReads>>

\* A faulty variant of remove that also marks the key in the sealed memtable
\* at the back of the queue.
remove_inSealed(key) ==
    /\ CallersMayWrite
    /\ activeMemTable' = Mem_put(activeMemTable, key, TOMBSTONE)
    /\ memTables' = IF memTables = << >> THEN memTables
                    ELSE [memTables EXCEPT ![Len(memTables)] = Mem_put(@, key, TOMBSTONE)]
    /\ Written(key, TOMBSTONE)
    /\ UNCHANGED <<sstables, disk, clock, running, sameMs, faulty, flushVars,
                   compactVars, dpc, rpc, rKey, rResult, rReads, sealOrder>>

remove(key) ==
    /\ CallersMayWrite
    /\ activeMemTable' = Mem_put(activeMemTable, key, TOMBSTONE)
    /\ Written(key, TOMBSTONE)
    /\ UNCHANGED <<memTables, sstables, disk, clock, running, sameMs, faulty, flushVars,
                   compactVars, dpc, rpc, rKey, rResult, rReads, sealOrder>>

(***************************************************************************)
(* The flush worker: flush_worker and flush_memtable.                      *)
(***************************************************************************)
\* Whether the index file and the data file open for writing: always,
\* unless the run injects faults.
IoOutcomes == IF faulty THEN BOOLEAN \X BOOLEAN ELSE {<<TRUE, TRUE>>}

\* Whether a write of key k went to memtable m.
MemWrote(m, k) ==
    IF k = EmptyString THEN m.headValue # EmptyString
    ELSE \E i \in 1..Len(m.nodes) : m.nodes[i].key = k

\* while (running)
F_loop ==
    /\ fpc = "loop"
    /\ fpc' = IF running THEN "lock" ELSE "done"
    /\ UNCHANGED <<storeVars, running, sameMs, faulty, memtable_to_flush, fStem, compactVars,
                   dpc, readerVars, passVars, historyVars>>

\* A faulty variant of the wait step that pops the back of the queue, the
\* memtable sealed last.
F_pred_popsBack ==
    /\ fpc = "lock"
    /\ IF ~(~running \/ memTables # << >>)
       THEN /\ fpc' = "toWait"
            /\ UNCHANGED <<memTables, memtable_to_flush, sealOrder>>
       ELSE IF ~running /\ memTables = << >>
       THEN /\ fpc' = "done"
            /\ UNCHANGED <<memTables, memtable_to_flush, sealOrder>>
       ELSE /\ memtable_to_flush' = memTables[Len(memTables)]
            /\ memTables' = SubSeq(memTables, 1, Len(memTables) - 1)
            /\ sealOrder' = [sealOrder EXCEPT
                    !.flushing = sealOrder.queue[Len(sealOrder.queue)],
                    !.queue = SubSeq(@, 1, Len(@) - 1)]
            /\ fpc' = "write"
    /\ UNCHANGED <<activeMemTable, sstables, disk, clock, running, sameMs, faulty, fStem,
                   compactVars, dpc, readerVars, passVars, oracle, flushedLast,
                   nWrites, restarted>>

\* Lock memtables_mtx and evaluate the wait predicate; when it holds, run
\* lines 79-87: break, or pop the front of the queue and unlock.
F_pred ==
    /\ fpc = "lock"
    /\ IF ~(~running \/ memTables # << >>)
       THEN /\ fpc' = "toWait"
            /\ UNCHANGED <<memTables, memtable_to_flush, sealOrder>>
       ELSE IF ~running /\ memTables = << >>
       THEN /\ fpc' = "done"
            /\ UNCHANGED <<memTables, memtable_to_flush, sealOrder>>
       ELSE /\ memtable_to_flush' = Head(memTables)
            /\ memTables' = Tail(memTables)
            /\ sealOrder' = [sealOrder EXCEPT !.flushing = Head(sealOrder.queue),
                                              !.queue = Tail(@)]
            /\ fpc' = "write"
    /\ UNCHANGED <<activeMemTable, sstables, disk, clock, running, sameMs, faulty, fStem,
                   compactVars, dpc, readerVars, passVars, oracle, flushedLast,
                   nWrites, restarted>>

\* cv.wait: the predicate was false; unlock and block.
F_block ==
    /\ fpc = "toWait"
    /\ fpc' = "blocked"
    /\ UNCHANGED <<storeVars, running, sameMs, faulty, memtable_to_flush, fStem, compactVars,
                   dpc, readerVars, passVars, historyVars>>

\* A spurious wakeup of cv.wait.
F_spurious ==
    /\ fpc = "blocked"
    /\ fpc' = "lock"
    /\ UNCHANGED <<storeVars, running, sameMs, faulty, memtable_to_flush, fStem, compactVars,
                   dpc, readerVars, passVars, historyVars>>

\* A faulty variant of the flush step in which a failed write ends the
\* flush worker.
F_write_stopsOnFailure ==
    /\ fpc = "write"
    /\ \E timestamp \in Timestamps(clock) \cap Stems, opens \in IoOutcomes :
        /\ clock' = timestamp
        /\ fStem' = timestamp
        /\ disk' = [disk EXCEPT ![timestamp] =
                SST_createFiles(disk[timestamp], memtable_to_flush, opens[1], opens[2])]
        /\ IF opens[1] /\ opens[2]
           THEN /\ fpc' = "append"
                /\ UNCHANGED <<memtable_to_flush, sealOrder>>
                /\ flushedLast' = flushedLast \cup
                       {k \in Keys :
                           /\ MemWrote(memtable_to_flush, k)
                           /\ ~MemWrote(activeMemTable, k)
                           /\ \A i \in 1..Len(memTables) : ~MemWrote(memTables[i], k)}
           ELSE /\ fpc' = "done"
                /\ memtable_to_flush' = NoMemTable
                /\ sealOrder' = [sealOrder EXCEPT !.flushing = 0]
                /\ UNCHANGED flushedLast
    /\ UNCHANGED <<activeMemTable, memTables, sstables, running, sameMs, faulty, compactVars,
                   dpc, readerVars, passVars, oracle, nWrites, restarted>>

\* flush_memtable, lines 100-104: read the clock, write the two files.
F_write ==
    /\ fpc = "write"
    /\ \E timestamp \in Timestamps(clock) \cap Stems, opens \in IoOutcomes :
        /\ clock' = timestamp
        /\ fStem' = timestamp
        /\ disk' = [disk EXCEPT ![timestamp] =
                SST_createFiles(disk[timestamp], memtable_to_flush, opens[1], opens[2])]
        /\ IF opens[1] /\ opens[2]
           THEN /\ fpc' = "append"
                /\ UNCHANGED <<memtable_to_flush, sealOrder>>
                /\ flushedLast' = flushedLast \cup
                       {k \in Keys :
                           /\ MemWrote(memtable_to_flush, k)
                           /\ ~MemWrote(activeMemTable, k)
                           /\ \A i \in 1..Len(memTables) : ~MemWrote(memTables[i], k)}
           ELSE /\ fpc' = "loop"
                /\ memtable_to_flush' = NoMemTable
                /\ sealOrder' = [sealOrder EXCEPT !.flushing = 0]
                /\ UNCHANGED flushedLast
    /\ UNCHANGED <<activeMemTable, memTables, sstables, running, sameMs, faulty, compactVars,
                   dpc, readerVars, passVars, oracle, nWrites, restarted>>

\* flush_memtable, lines 105-113: append the handle under sstables_mtx.
F_append ==
    /\ fpc = "append"
    /\ \E garbage \in GarbageIndexes :
          sstables' = Append(sstables, SST_open(fStem, disk, garbage))
    /\ cpc' = IF Len(sstables) + 1 >= MAX_SSTABLE_COUNT THEN Notified(cpc) ELSE cpc
    /\ memtable_to_flush' = NoMemTable
    /\ sealOrder' = [sealOrder EXCEPT !.list = Append(@, sealOrder.flushing),
                                      !.flushing = 0]
    /\ fpc' = "loop"
    /\ UNCHANGED <<activeMemTable, memTables, disk, clock, running, sameMs, faulty, fStem,
                   tables_to_compact, cStem, dpc, readerVars, passVars, oracle, flushedLast,
                   nWrites, restarted>>

FlushWorker == F_loop \/ F_pred \/ F_block \/ F_write \/ F_append

(***************************************************************************)
(* The compaction worker: compaction_worker and perform_compaction.        *)
(***************************************************************************)
\* merged_data after reading the records of one data file from record i on:
\* a key already present keeps its value.
RECURSIVE MergeFile(_, _, _)
MergeFile(merged_data, data, i) ==
    IF i > Len(data) THEN merged_data
    ELSE MergeFile(
            IF data[i].key \in DOMAIN merged_data THEN merged_data
            ELSE [x \in DOMAIN merged_data \cup {data[i].key} |->
                    IF x \in DOMAIN merged_data THEN merged_data[x] ELSE data[i].value],
            data, i + 1)

\* The loop over tables_to_compact, from table i on; a data file that
\* cannot be opened is skipped.
RECURSIVE MergeTablesFrom(_, _, _, _)
MergeTablesFrom(merged_data, tables, dsk, i) ==
    IF i > Len(tables) THEN merged_data
    ELSE MergeTablesFrom(
            IF ~dsk[tables[i].stem].hasData THEN merged_data
            ELSE MergeFile(merged_data, dsk[tables[i].stem].data, 1),
            tables, dsk, i + 1)

MergeTables(tables, dsk) ==
    MergeTablesFrom([x \in {} |-> EmptyString], tables, dsk, 1)

\* The loop over merged_data in key order: every entry but the tombstones
\* is put into merged_memtable.
RECURSIVE PutMerged(_, _, _)
PutMerged(merged_memtable, merged_data, keys) ==
    IF keys = {} THEN merged_memtable
    ELSE LET k == CHOOSE k \in keys : \A j \in keys : StrLeq(k, j)
         IN  PutMerged(IF merged_data[k] # TOMBSTONE
                       THEN Mem_put(merged_memtable, k, merged_data[k])
                       ELSE merged_memtable,
                       merged_data, keys \ {k})

\* perform_compaction, lines 163-200: the memtable written as the merged SSTable.
MergedMemTable(tables, dsk) ==
    LET merged_data == MergeTables(SortByName(tables), dsk)
    IN  PutMerged(Mem_new, merged_data, DOMAIN merged_data)

\* while (running)
C_loop ==
    /\ cpc = "loop"
    /\ cpc' = IF running THEN "lock" ELSE "done"
    /\ UNCHANGED <<storeVars, running, sameMs, faulty, flushVars, tables_to_compact, cStem,
                   dpc, readerVars, passVars, historyVars>>

\* Lock compaction_mtx and evaluate the wait predicate (under sstables_mtx);
\* when it holds, break if shutting down, else enter perform_compaction.
C_pred ==
    /\ cpc = "lock"
    /\ cpc' = IF ~(~running \/ Len(sstables) >= MAX_SSTABLE_COUNT) THEN "toWait"
              ELSE IF ~running THEN "done"
              ELSE "take"
    /\ UNCHANGED <<storeVars, running, sameMs, faulty, flushVars, tables_to_compact, cStem,
                   dpc, readerVars, passVars, historyVars>>

\* compaction_cv.wait: the predicate was false; unlock and block.
C_block ==
    /\ cpc = "toWait"
    /\ cpc' = "blocked"
    /\ UNCHANGED <<storeVars, running, sameMs, faulty, flushVars, tables_to_compact, cStem,
                   dpc, readerVars, passVars, historyVars>>

\* A spurious wakeup of compaction_cv.wait.
C_spurious ==
    /\ cpc = "blocked"
    /\ cpc' = "lock"
    /\ UNCHANGED <<storeVars, running, sameMs, faulty, flushVars, tables_to_compact, cStem,
                   dpc, readerVars, passVars, historyVars>>

\* Keys whose newest version is in the first n handles of the list: no
\* memtable and no later handle holds them.
NewestInFront(n) ==
    {k \in Keys :
        /\ ~Definitive(Mem_get(activeMemTable, k))
        /\ ~Definitive(GetSealed(memTables, k))
        /\ memtable_to_flush # NoMemTable => ~Definitive(Mem_get(memtable_to_flush, k))
        /\ ~Definitive(GetSSTables(SubSeq(sstables, n + 1, Len(sstables)), disk, k))
        /\ Definitive(GetSSTables(SubSeq(sstables, 1, n), disk, k))}

\* A faulty variant of the take step that copies the oldest handles into
\* the local buffer and leaves them in the list.
C_take_keepsList ==
    /\ cpc = "take"
    /\ IF Len(sstables) < MAX_SSTABLE_COUNT
       THEN /\ cpc' = "sleep"
            /\ UNCHANGED <<tables_to_compact, cFromBatch, cBatch>>
       ELSE /\ tables_to_compact' = SubSeq(sstables, 1, MAX_SSTABLE_COUNT)
            /\ cFromBatch' = NewestInFront(MAX_SSTABLE_COUNT)
            /\ cBatch' = {sstables[i].stem : i \in 1..MAX_SSTABLE_COUNT}
            /\ cpc' = "merge"
    /\ cBefore' = [k \in Keys |-> Get(k)]
    /\ cWritten' = {}
    /\ UNCHANGED <<storeVars, running, sameMs, faulty, flushVars, cStem, dpc, readerVars,
                   historyVars>>

\* perform_compaction, lines 143-161: take the oldest handles under sstables_mtx.
C_take ==
    /\ cpc = "take"
    /\ IF Len(sstables) < MAX_SSTABLE_COUNT
       THEN /\ cpc' = "sleep"
            /\ UNCHANGED <<sstables, tables_to_compact, cFromBatch, cBatch, sealOrder>>
       ELSE /\ tables_to_compact' = SubSeq(sstables, 1, MAX_SSTABLE_COUNT)
            /\ sstables' = SubSeq(sstables, MAX_SSTABLE_COUNT + 1, Len(sstables))
            /\ sealOrder' = [sealOrder EXCEPT
                    !.list = SubSeq(@, MAX_SSTABLE_COUNT + 1, Len(sstables))]
            /\ cFromBatch' = NewestInFront(MAX_SSTABLE_COUNT)
            /\ cBatch' = {sstables[i].stem : i \in 1..MAX_SSTABLE_COUNT}
            /\ cpc' = "merge"
    /\ cBefore' = [k \in Keys |-> Get(k)]
    /\ cWritten' = {}
    /\ UNCHANGED <<activeMemTable, memTables, disk, clock, running, sameMs, faulty, flushVars,
                   cStem, dpc, readerVars, oracle, flushedLast, nWrites, restarted>>

\* perform_compaction, lines 163-207: sort, merge, read the clock, write the files.
C_merge ==
    /\ cpc = "merge"
    /\ \E timestamp \in Timestamps(clock) \cap Stems, opens \in IoOutcomes :
        /\ clock' = timestamp
        /\ cStem' = timestamp
        /\ disk' = [disk EXCEPT ![timestamp] =
                SST_createFiles(disk[timestamp], MergedMemTable(tables_to_compact, disk),
                                opens[1], opens[2])]
        /\ IF opens[1] /\ opens[2]
           THEN /\ tables_to_compact' = SortByName(tables_to_compact)
                /\ cpc' = "delete"
           ELSE /\ tables_to_compact' = << >>
                /\ cpc' = "sleep"
    /\ UNCHANGED <<activeMemTable, memTables, sstables, running, sameMs, faulty, flushVars,
                   dpc, readerVars, passVars, historyVars>>

\* perform_compaction, lines 210-218: remove the files of every source.
C_delete ==
    /\ cpc = "delete"
    /\ disk' = [s \in Stems |->
                  IF \E i \in 1..Len(tables_to_compact) : tables_to_compact[i].stem = s
                  THEN NoFile ELSE disk[s]]
    /\ tables_to_compact' = << >>
    /\ cpc' = "append"
    /\ UNCHANGED <<activeMemTable, memTables, sstables, clock, running, sameMs, faulty,
                   flushVars, cStem, dpc, readerVars, passVars, historyVars>>

\* perform_compaction, lines 220-222: append the merged handle under sstables_mtx.
C_append ==
    /\ cpc = "append"
    /\ \E garbage \in GarbageIndexes :
          sstables' = Append(sstables, SST_open(cStem, disk, garbage))
    /\ sealOrder' = [sealOrder EXCEPT !.list = Append(@, 0)]
    /\ cpc' = "sleep"
    /\ UNCHANGED <<activeMemTable, memTables, disk, clock, running, sameMs, faulty, flushVars,
                   tables_to_compact, cStem, dpc, readerVars, passVars, oracle, flushedLast,
                   nWrites, restarted>>

\* sleep_for(2 s), unlock compaction_mtx, next iteration.
C_sleep ==
    /\ cpc = "sleep"
    /\ cpc' = "loop"
    /\ cBefore' = [k \in Keys |-> Absent]
    /\ cFromBatch' = {}
    /\ cBatch' = {}
    /\ cWritten' = {}
    /\ UNCHANGED <<storeVars, running, sameMs, faulty, flushVars, tables_to_compact, cStem,
                   dpc, readerVars, historyVars>>

CompactionWorker == C_loop \/ C_pred \/ C_block \/ C_take \/ C_merge \/ C_delete
                        \/ C_append \/ C_sleep

(***************************************************************************)
(* ~LSMTree.  The owner destroys the store once no caller is inside put,   *)
(* get or remove.                                                          *)
(***************************************************************************)
\* running = false
D_stop ==
    /\ dpc = "alive"
    /\ rpc = "idle"
    /\ running' = FALSE
    /\ dpc' = "notify_cv"
    /\ UNCHANGED <<storeVars, sameMs, faulty, flushVars, compactVars, readerVars, passVars,
                   historyVars>>

\* cv.notify_all()
D_notify_cv ==
    /\ dpc = "notify_cv"
    /\ fpc' = Notified(fpc)
    /\ dpc' = "notify_compaction_cv"
    /\ UNCHANGED <<storeVars, running, sameMs, faulty, memtable_to_flush, fStem, compactVars,
                   readerVars, passVars, historyVars>>

\* compaction_cv.notify_all()
D_notify_compaction_cv ==
    /\ dpc = "notify_compaction_cv"
    /\ cpc' = Notified(cpc)
    /\ dpc' = "join_flush"
    /\ UNCHANGED <<storeVars, running, sameMs, faulty, flushVars, tables_to_compact, cStem,
                   readerVars, passVars, historyVars>>

\* flush_thread.join()
D_join_flush ==
    /\ dpc = "join_flush"
    /\ fpc = "done"
    /\ dpc' = "join_compaction"
    /\ UNCHANGED <<storeVars, running, sameMs, faulty, flushVars, compactVars, readerVars,
                   passVars, historyVars>>

\* compaction_thread.join(); then the members are destroyed.
D_join_compaction ==
    /\ dpc = "join_compaction"
    /\ cpc = "done"
    /\ dpc' = "destroyed"
    /\ UNCHANGED <<storeVars, running, sameMs, faulty, flushVars, compactVars, readerVars,
                   passVars, historyVars>>

Destructor == D_stop \/ D_notify_cv \/ D_notify_compaction_cv \/ D_join_flush
                  \/ D_join_compaction

(***************************************************************************)
(* LSMTree(): a fresh process on the same data directory.                  *)
(***************************************************************************)
\* load_existing_sstables: a handle per index file whose index loads,
\* sorted by index file name.
LoadExisting(dsk, garbage) ==
    LET RECURSIVE Handles(_)
        Handles(stems) ==
            IF stems = {} THEN << >>
            ELSE LET s == CHOOSE s \in stems : TRUE
                 IN  Append(Handles(stems \ {s}), SST_open(s, dsk, garbage))
    IN  SortByName(Handles({s \in Stems : dsk[s].hasIndex}))

\* An index file without a header: loadIndex reserves and loops on an
\* uninitialized entries_count.
Unreadable(dsk) == {s \in Stems : dsk[s].hasIndex /\ dsk[s].count = -1}

\* The order in which the directory iterator lists the index files: by
\* ascending or by descending name.
Listing(dsk, garbage, reversed) ==
    LET sorted == LoadExisting(dsk, garbage)
    IN  IF reversed THEN [i \in 1..Len(sorted) |-> sorted[Len(sorted) + 1 - i]] ELSE sorted

\* LSMTree(), lines 257-264: the worker threads start on an empty list,
\* before load_existing_sstables runs.
Restart ==
    /\ dpc = "destroyed"
    /\ ~restarted
    /\ restarted' = TRUE
    /\ \E aborts \in BOOLEAN :
        IF aborts
        THEN \* index.reserve(entries_count) throws on a huge count: the
             \* constructor does not return and the process ends.
             /\ Unreadable(disk) # {}
             /\ UNCHANGED <<activeMemTable, memTables, sstables, running, fpc, cpc, dpc,
                            sealOrder>>
        ELSE /\ activeMemTable' = Mem_new
             /\ memTables' = << >>
             /\ sstables' = << >>
             /\ sealOrder' = [sealOrder EXCEPT !.queue = << >>, !.list = << >>]
             /\ running' = TRUE
             /\ fpc' = "loop"
             /\ cpc' = "loop"
             /\ dpc' = "loading"
    /\ UNCHANGED <<disk, clock, sameMs, faulty, memtable_to_flush, fStem, tables_to_compact,
                   cStem, readerVars, passVars, oracle, flushedLast, nWrites>>

\* LSMTree() has started the worker threads and has not returned yet.
ConstructorRuns == dpc \in {"loading", "sorting"}

\* The constructor is inside load_existing_sstables, lines 231-250, which
\* holds no lock: it has pushed handles onto the list and has yet to sort it.
LoadAccessesList == dpc = "sorting" /\ sstables # << >>

\* The compaction worker is at line 124 or at lines 145-160, where it holds
\* sstables_mtx and reads the size of the list or erases its front.
CompactionAccessesList == cpc \in {"lock", "take"}

\* load_existing_sstables, lines 231-243: push a handle per index file,
\* without sstables_mtx.
Load_files ==
    /\ dpc = "loading"
    /\ \E garbage \in GarbageIndexes, reversed \in BOOLEAN :
          sstables' = sstables \o Listing(disk, garbage, reversed)
    /\ sealOrder' = [sealOrder EXCEPT !.list = [i \in 1..Len(sstables') |-> 0]]
    /\ dpc' = "sorting"
    /\ UNCHANGED <<activeMemTable, memTables, disk, clock, running, sameMs, faulty, flushVars,
                   compactVars, readerVars, passVars, oracle, flushedLast, nWrites,
                   restarted>>

\* load_existing_sstables, lines 244-250: sort the list by index file name,
\* without sstables_mtx, and notify the compaction worker.  The
\* constructor returns.
Load_sort ==
    /\ dpc = "sorting"
    /\ sstables' = SortByName(sstables)
    /\ cpc' = IF Len(sstables) >= MAX_SSTABLE_COUNT THEN Notified(cpc) ELSE cpc
    /\ dpc' = "alive"
    /\ UNCHANGED <<activeMemTable, memTables, disk, clock, running, sameMs, faulty, flushVars,
                   tables_to_compact, cStem, readerVars, passVars, historyVars>>

Constructor == Restart \/ Load_files \/ Load_sort

(***************************************************************************)
(* A caller inside get: one step per lock-protected block.                 *)
(***************************************************************************)
ReadKeys == Keys \ {EmptyString}

\* Lines 306-314: the active memtable, under active_memtable_mtx.
R_active(key) ==
    /\ rpc = "idle"
    /\ CallersMayCall
    /\ rKey' = key
    /\ rAllowed' = {oracle[key]}
    /\ LET result == Mem_get(activeMemTable, key)
       IN  IF Definitive(result)
           THEN rResult' = result /\ rpc' = "done"
           ELSE rResult' = Absent /\ rpc' = "sealed"
    /\ UNCHANGED <<storeVars, running, sameMs, faulty, flushVars, compactVars, dpc, rReads,
                   passVars, historyVars>>

\* Lines 316-326: the sealed memtables, under memtables_mtx.
R_sealed ==
    /\ rpc = "sealed"
    /\ ~FlushHoldsMemtablesMtx
    /\ LET result == GetSealed(memTables, rKey)
       IN  IF Definitive(result)
           THEN rResult' = result /\ rpc' = "done"
           ELSE rResult' = Absent /\ rpc' = "sstables"
    /\ UNCHANGED <<storeVars, running, sameMs, faulty, flushVars, compactVars, dpc, rKey,
                   rReads, rAllowed, passVars, historyVars>>

\* Lines 328-339: the SSTables, under sstables_mtx; then return.
R_sstables ==
    /\ rpc = "sstables"
    /\ rResult' = GetSSTables(sstables, disk, rKey)
    /\ rpc' = "done"
    /\ UNCHANGED <<storeVars, running, sameMs, faulty, flushVars, compactVars, dpc, rKey,
                   rReads, rAllowed, passVars, historyVars>>

\* The caller has its result.
R_return ==
    /\ rpc = "done"
    /\ rpc' = "idle"
    /\ rKey' = EmptyString
    /\ rResult' = Absent
    /\ rReads' = [keys |-> 0, values |-> 0]
    /\ rAllowed' = {}
    /\ UNCHANGED <<storeVars, running, sameMs, faulty, flushVars, compactVars, dpc, passVars,
                   historyVars>>

Reader == (\E key \in ReadKeys : R_active(key)) \/ R_sealed \/ R_sstables \/ R_return

(***************************************************************************)
(* The specification.                                                      *)
(***************************************************************************)
RemoveKeys == Keys \ {EmptyString}

Callers ==
    \/ \E key \in Keys, value \in PutValues : put(key, value)
    \/ \E key \in RemoveKeys : remove(key)

Next ==
    \/ Callers
    \/ Reader
    \/ FlushWorker
    \/ F_spurious
    \/ CompactionWorker
    \/ C_spurious
    \/ Destructor
    \/ Constructor

Spec == Init /\ [][Next]_vars

\* The same store when the clock may return the same millisecond to two
\* consecutive readings.
InitSameMs == InitWith(TRUE, FALSE)
SpecSameMs == InitSameMs /\ [][Next]_vars

\* The same store when creating the files of an SSTable may fail.
InitFaulty == InitWith(FALSE, TRUE)
SpecFaulty == InitFaulty /\ [][Next]_vars

(***************************************************************************)
(* SSTables of up to MaxRecords records.  In these runs the rotation       *)
(* threshold is any size from MAX_MEMTABLE_SIZE up: callers fill the       *)
(* active memtable with keys of one and two bytes, the memtable is sealed, *)
(* the flush worker writes it, and a caller looks keys up in the SSTable.  *)
(***************************************************************************)
\* Records of the largest memtable: three index entries.
MaxRecords == 21

\* "b", "bb", "c", "cb", "d", ... : ascending in i.
LookupKey(i) ==
    IF i % 2 = 1 THEN <<98 + (i - 1) \div 2>> ELSE <<98 + (i - 2) \div 2, 98>>

\* Every fourth key is removed; the others hold "1" or "12".
LookupValue(i) ==
    IF i % 4 = 0 THEN TOMBSTONE ELSE IF i % 3 = 0 THEN <<49, 50>> ELSE <<49>>

\* Keys of lookups: the keys above, the empty key, "a" (below every stored
\* key) and "z" (above every stored key).
ProbeKeys == {LookupKey(i) : i \in 1..MaxRecords} \cup {EmptyString, <<97>>, <<122>>}

KeyIndex(key) == CHOOSE i \in 1..MaxRecords : LookupKey(i) = key

\* The index of the greatest key of memtable m (0: m is empty).
LastIndex(m) == IF m.nodes = << >> THEN 0 ELSE KeyIndex(m.nodes[Len(m.nodes)].key)

\* MemTable::put of key i on the active memtable (LSMTree::remove when the
\* value is the tombstone); every fifth key is first put with the value "0"
\* and then overwritten.  Callers write the keys in ascending order, may
\* leave out one key, and may write that key later.
L_put(i) ==
    /\ dpc = "alive"
    /\ memTables = << >> /\ memtable_to_flush = NoMemTable /\ sstables = << >>
    /\ LET last == LastIndex(activeMemTable)
       IN  \/ i = last + 1
           \/ i = last + 2 /\ Len(activeMemTable.nodes) = last
           \/ i < last /\ ~MemWrote(activeMemTable, LookupKey(i))
    /\ activeMemTable' =
          IF i % 5 = 0
          THEN Mem_put(Mem_put(activeMemTable, LookupKey(i), <<48>>),
                       LookupKey(i), LookupValue(i))
          ELSE Mem_put(activeMemTable, LookupKey(i), LookupValue(i))
    /\ nWrites' = nWrites + (IF i % 5 = 0 THEN 2 ELSE 1)
    /\ UNCHANGED <<memTables, sstables, disk, clock, running, sameMs, faulty, flushVars,
                   compactVars, dpc, readerVars, passVars, oracle, flushedLast, sealOrder,
                   restarted>>

\* The put that reaches the threshold seals the memtable; the lookups are
\* studied on tables sealed while the flush worker is away from the queue.
L_rotate ==
    /\ dpc = "alive"
    /\ ~FlushAccessesQueue
    /\ memTables = << >> /\ memtable_to_flush = NoMemTable /\ sstables = << >>
    /\ activeMemTable.nodes # << >>
    /\ Mem_getSize(activeMemTable) >= MAX_MEMTABLE_SIZE
    /\ rotate_memtable(activeMemTable)
    /\ UNCHANGED <<sstables, disk, clock, running, sameMs, faulty, memtable_to_flush, fStem,
                   compactVars, dpc, readerVars, passVars, oracle, flushedLast,
                   nWrites, restarted>>

\* SS_Table::getValue(key) on the i-th handle of the list.
L_getValue(i, key) ==
    /\ rpc = "idle"
    /\ i \in 1..Len(sstables)
    /\ rKey' = key
    /\ rResult' = SST_getValue(sstables[i], disk, key)
    /\ rReads' = SST_recordsRead(sstables[i], disk, key)
    /\ rpc' = "done"
    /\ UNCHANGED <<storeVars, running, sameMs, faulty, flushVars, compactVars, dpc, rAllowed,
                   passVars, historyVars>>

NextLookup ==
    \/ \E i \in 1..MaxRecords : L_put(i)
    \/ L_rotate
    \/ FlushWorker
    \/ \E i \in 1..CompactAt, key \in ProbeKeys : L_getValue(i, key)
    \/ R_return

SpecLookup == Init /\ [][NextLookup]_vars

(***************************************************************************)
(* Claims.                                                                 *)
(***************************************************************************)

\* C1: every get is linearizable: a get that has its result returns the
\* result of the last write of its key completed before it started, or of a
\* write of that key made while it ran.
C1_GetLinearizable == rpc = "done" => rResult \in rAllowed

\* C2: read-after-write: in the state right after put(k, v) returns, get(k)
\* yields (true, v), for every key k and every value v but the tombstone,
\* also when the put rotated the memtable.
C2_ReadAfterWrite ==
    [][\A key \in Keys, value \in PutValues :
          put(key, value) => Get(key)' = Pair(TRUE, value)]_vars

\* C3: delete-visible: while the last write of k is remove(k), get(k) returns
\* Deleted, in every later state of the running store.
C3_DeleteVisible ==
    ~restarted => \A k \in Keys : oracle[k] = Deleted => Get(k) = Deleted

\* C4: compaction idempotence: right after a compaction pass, get(k) returns
\* what it returned right before the pass, for every key no caller wrote
\* in between.
C4_CompactionIdempotent ==
    cpc = "sleep" => \A k \in Keys \ cWritten : Get(k) = cBefore[k]

\* C5: a flush is not observable: between the flush worker popping a sealed
\* memtable and appending its SSTable handle, get(k) for every key of that
\* memtable returns what it returns with the memtable still at the front of
\* the queue.
C5_FlushNotObservable ==
    fpc \in {"write", "append"} =>
        \A k \in Keys :
            MemWrote(memtable_to_flush, k) =>
                Get(k) = GetIn(activeMemTable, <<memtable_to_flush>> \o memTables,
                               sstables, disk, k)

\* C6: a running compaction pass is not observable: between the pass taking
\* the source handles and appending the merged handle, get(k) for a key
\* whose newest version was in a source SSTable returns what it returned
\* before the pass.
C6_CompactionNotObservable ==
    cpc \in {"merge", "delete", "append"} =>
        \A k \in cFromBatch \ cWritten : Get(k) = cBefore[k]

\* C7: durability of flushed data: after shutdown and a fresh start on the
\* same directory, get(k) returns (true, v) when put(k, v) was the last
\* write of k and its memtable had been written as an SSTable.  Stated for
\* the non-empty keys, and read while the new process has no compaction
\* pass in progress.
C7_FlushedDataDurable ==
    (restarted /\ ~ConstructorRuns /\ cpc \notin {"merge", "delete", "append"}) =>
        \A k \in flushedLast \ {EmptyString} : oracle[k].found => Get(k) = oracle[k]

\* Whether the batch holds a put of y in an older SSTable and a tombstone
\* for y in a newer one.
PutThenTombstone(tables, dsk, y) ==
    \E i, j \in 1..Len(tables) :
        /\ i < j
        /\ \E r \in 1..Len(dsk[tables[i].stem].data) :
              /\ dsk[tables[i].stem].data[r].key = y
              /\ dsk[tables[i].stem].data[r].value # TOMBSTONE
        /\ \E r \in 1..Len(dsk[tables[j].stem].data) :
              dsk[tables[j].stem].data[r] = [key |-> y, value |-> TOMBSTONE]

\* C8: tombstone across layers: when the batch of a pass holds a put of y in
\* an older SSTable and a tombstone for y in a newer one, the merged SSTable
\* has no record for y, and get(y) after the pass returns Absent.
C8_TombstoneDropsKey ==
    /\ cpc = "merge" =>
          \A y \in Keys :
              PutThenTombstone(tables_to_compact, disk, y) =>
                  ~MemWrote(MergedMemTable(tables_to_compact, disk), y)
    /\ cpc = "sleep" =>
          \A y \in cFromBatch \ cWritten : cBefore[y] = Deleted => Get(y) = Absent

\* C9: shutdown always completes: once the destructor has set running to
\* false and notified both condition variables, no worker is left blocked in
\* wait() with nobody left to notify it.
C9_ShutdownCompletes ==
    dpc \in {"join_flush", "join_compaction"} =>
        /\ fpc # "blocked"
        /\ ~(cpc = "blocked" /\ fpc \in {"blocked", "done"})

\* C10: flush liveness: a sealed memtable is flushed even if no further put
\* happens: the flush worker is never blocked in wait() while the running
\* store has a sealed memtable in the queue.
C10_QueueDrains ==
    ~(running /\ dpc = "alive" /\ memTables # << >> /\ fpc = "blocked")

\* C11: compaction liveness: while the store runs, a list of at least
\* MAX_SSTABLE_COUNT handles leads to a compaction pass even if no further
\* flush happens.  Finite-run form: the compaction worker is never blocked
\* in its wait, with no notification left to come, while the list is at or
\* above the threshold.
C11_CompactionRuns ==
    ~(running /\ dpc = "alive" /\ cpc = "blocked"
        /\ Len(sstables) >= MAX_SSTABLE_COUNT)

\* C12: restart preserves read semantics: in every state the in-memory
\* SSTable list is in ascending order of index-file names, the order in
\* which load_existing_sstables rebuilds it, so the SSTable layers answer
\* every get after a restart as they did before it.
C12_ListOrderedByName ==
    /\ ~ConstructorRuns =>
          \A i, j \in 1..Len(sstables) :
              i < j => NameLess(sstables[i].stem, sstables[j].stem)
    /\ (~ConstructorRuns /\ cpc \notin {"merge", "delete", "append"} /\ fpc # "append") =>
          \A k \in Keys :
              GetSSTables(LoadExisting(disk, << >>), disk, k) = GetSSTables(sstables, disk, k)

\* C13: filename monotonicity: every SSTable a worker creates gets a stem
\* that differs from and sorts strictly after the stem of every SSTable
\* created before it; the merged SSTable's stem is greater than the stems
\* of its sources; and no creation writes over the files of an existing
\* SSTable.
C13_FilenameMonotonic ==
    [][((fpc = "write" /\ fpc' = "append") \/ (cpc = "merge" /\ cpc' = "delete")) =>
          /\ \A s \in 1..clock : NameLess(s, clock')
          /\ disk[clock'] = NoFile
          /\ (cpc = "merge" =>
                \A i \in 1..Len(tables_to_compact) :
                    NameLess(tables_to_compact[i].stem, cStem'))]_vars

\* The answer of a scan of the whole data file for the key.
FullScan(data, key) ==
    IF \E i \in 1..Len(data) : data[i].key = key
    THEN LET i == CHOOSE j \in 1..Len(data) : data[j].key = key
         IN  IF data[i].value = TOMBSTONE THEN Pair(FALSE, TOMBSTONE)
             ELSE Pair(TRUE, data[i].value)
    ELSE Pair(FALSE, EmptyString)

\* C14: a point lookup in an SSTable written by createFromMemTable agrees
\* with a scan of the whole data file: (true, v) for a record (K, v),
\* (false, tombstone) for a record (K, tombstone), (false, "") when no
\* record has key K, wherever K lies relative to the index keys.
C14_LookupAgreesWithScan ==
    (rpc = "done" /\ sstables # << >>) =>
        rResult = FullScan(disk[sstables[1].stem].data, rKey)

\* A lookup that found a key lying strictly between the second and the
\* third index key.
C14_Witness ==
    /\ rpc = "done" /\ sstables # << >>
    /\ Len(sstables[1].index) = 3
    /\ rResult.found
    /\ StrLess(sstables[1].index[2].key, rKey)
    /\ StrLess(rKey, sstables[1].index[3].key)

U32(n) == <<n % 256, (n \div 256) % 256, (n \div 65536) % 256, (n \div 16777216) % 256>>

EncodeRecord(e) == U32(Len(e.key)) \o e.key \o U32(Len(e.value)) \o e.value

RECURSIVE EncodeRecords(_, _)
EncodeRecords(data, n) ==
    IF n = 0 THEN << >> ELSE EncodeRecords(data, n - 1) \o EncodeRecord(data[n])

\* C16: an SSTable written from R entries has an index of exactly
\* ceil(R/10) entries, and entry j (from 0) holds the key of record 10*j and
\* the byte offset at which that record begins in the data file, the sum of
\* the encoded sizes of records 0 .. 10*j-1.
C16_SparseIndexShape ==
    \A s \in Stems : disk[s] # NoFile =>
        LET file == disk[s]
            R == Len(file.data)
            n == Len(file.index)
        IN  /\ file.count = n
            /\ KEYS_PER_INDEX_ENTRY * n >= R
            /\ KEYS_PER_INDEX_ENTRY * (n - 1) < R
            /\ \A j \in 0..(n - 1) :
                /\ file.index[j + 1].key = file.data[KEYS_PER_INDEX_ENTRY * j + 1].key
                /\ file.index[j + 1].offset =
                       Len(EncodeRecords(file.data, KEYS_PER_INDEX_ENTRY * j))

\* A file of 21 records with values of three lengths and three index entries.
C16_Witness ==
    \E s \in Stems :
        /\ disk[s] # NoFile
        /\ Len(disk[s].data) = 2 * KEYS_PER_INDEX_ENTRY + 1
        /\ Len(disk[s].index) = 3
        /\ disk[s].index[3].offset > 0

(***************************************************************************)
(* Flushes and compaction passes over memtables of several keys: callers   *)
(* put and remove the first MaxMergeKeys lookup keys in any order.         *)
(***************************************************************************)
MaxMergeKeys == 3

MergeKeys == {LookupKey(i) : i \in 1..MaxMergeKeys}

MergeCallers ==
    \/ \E key \in MergeKeys, value \in PutValues : put(key, value)
    \/ \E key \in MergeKeys : remove(key)

NextMerge ==
    \/ MergeCallers
    \/ FlushWorker
    \/ CompactionWorker

SpecMerge == Init /\ [][NextMerge]_vars

\* C17: every data file written by a flush or by a compaction pass holds its
\* records in strictly ascending key order, no key repeated, tombstone
\* records included.
C17_DataFilesAscending ==
    \A s \in Stems : disk[s] # NoFile =>
        \A i, j \in 1..Len(disk[s].data) :
            i < j => StrLess(disk[s].data[i].key, disk[s].data[j].key)

\* A pass has written a merged file of two records or more, and one of its
\* sources is a flushed file of two records or more that holds a tombstone.
C17_Witness ==
    /\ cpc = "delete"
    /\ Len(disk[cStem].data) >= 2
    /\ \E t \in 1..Len(tables_to_compact) :
        LET data == disk[tables_to_compact[t].stem].data
        IN  /\ Len(data) >= 2
            /\ \E i \in 1..Len(data) : data[i].value = TOMBSTONE

C19_FailureKeepsSources ==
    [][(cpc = "merge" /\ cpc' = "sleep") =>
          /\ \A i \in 1..Len(tables_to_compact) :
                /\ disk'[tables_to_compact[i].stem] = disk[tables_to_compact[i].stem]
                /\ \E j \in 1..Len(sstables') :
                      sstables'[j].stem = tables_to_compact[i].stem
          /\ \A k \in Keys \ cWritten : Get(k)' = cBefore[k]]_vars

C21_OrphanIndexSkipped ==
    [][(dpc = "sorting" /\ dpc' = "alive") =>
          \A i \in 1..Len(sstables') : disk[sstables'[i].stem].hasData]_vars

(***************************************************************************)
(* The client boundaries: RespDecoder::decode with KqueueServer's          *)
(* handle_op, and CommandParser::parser.  Requests and command lines are   *)
(* byte strings.                                                           *)
(***************************************************************************)
CRLF == <<13, 10>>

\* string_view::find(CRLF): the 0-based position of the first CRLF, -1 for npos.
FindCRLF(input) ==
    LET at == {i \in 1..(Len(input) - 1) : input[i] = 13 /\ input[i + 1] = 10}
    IN  IF at = {} THEN -1 ELSE (CHOOSE i \in at : \A j \in at : i <= j) - 1

\* string_view::substr(pos, n) and remove_prefix(n), positions from 0.
Substr(input, pos, n) ==
    SubSeq(input, pos + 1, IF pos + n <= Len(input) THEN pos + n ELSE Len(input))

RemovePrefix(input, n) == SubSeq(input, n + 1, Len(input))

IsDigit(b) == b \in 48..57

\* std::stoi on an unsigned decimal: the leading digits; no digit throws.
RECURSIVE DigitsValue(_, _, _)
DigitsValue(s, i, acc) ==
    IF i > Len(s) \/ ~IsDigit(s[i]) THEN acc
    ELSE DigitsValue(s, i + 1, acc * 10 + (s[i] - 48))

Stoi(s) ==
    IF s = << >> \/ ~IsDigit(s[1]) THEN [ok |-> FALSE, value |-> 0]
    ELSE [ok |-> TRUE, value |-> DigitsValue(s, 1, 0)]

\* parseOperation / parseKey / parseValue: "$<len>\r\n<bytes>\r\n" at the
\* front of the input; the bytes and the rest of the input.
ParseBulk(input) ==
    IF input = << >> \/ input[1] # 36 THEN [ok |-> FALSE, str |-> << >>, rest |-> input]
    ELSE LET pos == FindCRLF(input)
         IN  IF pos = -1 THEN [ok |-> FALSE, str |-> << >>, rest |-> input]
             ELSE LET len == Stoi(Substr(input, 1, pos - 1))
                      body == RemovePrefix(input, pos + 2)
                  IN  IF ~len.ok THEN [ok |-> FALSE, str |-> << >>, rest |-> input]
                      ELSE IF Len(body) < len.value + 2
                      THEN [ok |-> FALSE, str |-> << >>, rest |-> body]
                      ELSE [ok |-> TRUE, str |-> Substr(body, 0, len.value),
                            rest |-> RemovePrefix(body, len.value + 2)]

OpGET == <<71, 69, 84>>
OpSET == <<83, 69, 84>>
OpDEL == <<68, 69, 76>>

Resp(operation, key, value, success) ==
    [operation |-> operation, key |-> key, value |-> value, success |-> success]

RespFailed == Resp("UNKNOWN", EmptyString, EmptyString, FALSE)

parseOperation(input) ==
    LET op == ParseBulk(input)
    IN  IF op.ok /\ op.str \in {OpGET, OpSET, OpDEL} THEN op
        ELSE [ok |-> FALSE, str |-> << >>, rest |-> op.rest]

parseKey(input) == ParseBulk(input)

parseValue(input) == ParseBulk(input)

\* RespDecoder::decode
RespDecode(buffer) ==
    IF buffer = << >> \/ buffer[1] # 42 THEN RespFailed
    ELSE LET pos == FindCRLF(buffer)
         IN  IF pos = -1 THEN RespFailed
             ELSE LET num_args == Stoi(Substr(buffer, 1, pos - 1))
                  IN  IF ~num_args.ok THEN RespFailed
                      ELSE IF num_args.value < 2 \/ num_args.value > 3 THEN RespFailed
                      ELSE LET op == parseOperation(RemovePrefix(buffer, pos + 2))
                               key == parseKey(op.rest)
                               value == parseValue(key.rest)
                               operation == IF op.str = OpGET THEN "GET"
                                            ELSE IF op.str = OpSET THEN "SET" ELSE "DEL"
                               rest == IF operation = "SET" THEN value.rest ELSE key.rest
                           IN  IF ~op.ok THEN RespFailed
                               ELSE IF ~key.ok THEN RespFailed
                               ELSE IF operation = "SET" /\ num_args.value # 3 THEN RespFailed
                               ELSE IF operation = "SET" /\ ~value.ok THEN RespFailed
                               ELSE IF operation # "SET" /\ num_args.value > 2 THEN RespFailed
                               ELSE IF rest # << >> /\ rest # CRLF THEN RespFailed
                               ELSE Resp(operation, key.str,
                                         IF operation = "SET" THEN value.str ELSE EmptyString,
                                         TRUE)

\* The requests a client sends: "*<n>\r\n" and two or three bulk strings,
\* with the declared key length right or wrong, and two malformed buffers.
Digit(n) == <<48 + n>>

Bulk(declared, body) == <<36>> \o Digit(declared) \o CRLF \o body \o CRLF

Request(n, op, keyLen, key, withValue) ==
    <<42>> \o Digit(n) \o CRLF \o Bulk(Len(op), op) \o Bulk(keyLen, key)
           \o (IF withValue THEN Bulk(1, <<49>>) ELSE << >>)

Requests ==
    {Request(n, op, keyLen, key, withValue) :
        n \in 1..3, op \in {OpGET, OpSET, OpDEL, <<80, 85, 84>>},
        keyLen \in 0..1, key \in Keys, withValue \in BOOLEAN}
    \cup {<< >>, <<36, 48>> \o CRLF}

\* KqueueServer::handleClientMessage on a whole buffer, and handle_op: the
\* event loop serves one request at a time.
ServerRequest(buffer) ==
    /\ rpc = "idle"
    /\ LET resp == RespDecode(buffer)
       IN  IF ~resp.success THEN UNCHANGED vars
           ELSE IF resp.operation = "GET" THEN R_active(resp.key)
           ELSE IF resp.operation = "SET" THEN put(resp.key, resp.value)
           ELSE remove(resp.key)

\* CommandParser::split
IsSpace(c) == c \in {32, 9, 10, 11, 12, 13}

RECURSIVE SplitFrom(_, _, _, _, _)
SplitFrom(str, i, tokens, token, inQuotes) ==
    IF i > Len(str)
    THEN IF token # << >> THEN Append(tokens, token) ELSE tokens
    ELSE IF str[i] = 34 THEN SplitFrom(str, i + 1, tokens, token, ~inQuotes)
    ELSE IF IsSpace(str[i]) /\ ~inQuotes
    THEN IF token # << >> THEN SplitFrom(str, i + 1, Append(tokens, token), << >>, inQuotes)
         ELSE SplitFrom(str, i + 1, tokens, token, inQuotes)
    ELSE SplitFrom(str, i + 1, tokens, Append(token, str[i]), inQuotes)

split(str) == SplitFrom(str, 1, << >>, << >>, FALSE)

\* std::transform(..., ::tolower)
ToLower(s) == [i \in 1..Len(s) |-> IF s[i] \in 65..90 THEN s[i] + 32 ELSE s[i]]

CmdSet == <<115, 101, 116>>
CmdGet == <<103, 101, 116>>
CmdDel == <<100, 101, 108>>

\* validate_set / validate_get / validate_del
validate_set(tokens) == Len(tokens) = 3 /\ tokens[2] # << >>
validate_get(tokens) == Len(tokens) = 2 /\ tokens[2] # << >>
validate_del(tokens) == Len(tokens) = 2 /\ tokens[2] # << >>

\* The command lines a user types: a command word, a key written as a, "",
\* "a" or "" a, and for set the value 1; also bare words and blank lines.
KeyWords == {<<97>>, <<34, 34>>, <<34, 97, 34>>, <<34, 34, 32, 97>>}

CommandWords == {CmdSet, CmdGet, CmdDel, <<71, 69, 84>>, <<104, 101, 108, 112>>}

Lines ==
    {word \o <<32>> \o key : word \in CommandWords, key \in KeyWords}
    \cup {word \o <<32>> \o key \o <<32, 49>> : word \in {CmdSet}, key \in KeyWords}
    \cup CommandWords \cup {<< >>, <<32, 32>>}

\* CommandParser::parser: del looks the key up with get and removes it when
\* found; the lookup of del is taken in one step here.
ParserCommand(line) ==
    /\ rpc = "idle"
    /\ LET tokens == split(line)
           command == IF tokens = << >> THEN << >> ELSE ToLower(tokens[1])
       IN  IF command = CmdSet /\ validate_set(tokens) THEN put(tokens[2], tokens[3])
           ELSE IF command = CmdGet /\ validate_get(tokens) THEN R_active(tokens[2])
           ELSE IF command = CmdDel /\ validate_del(tokens) /\ CallersMayCall
                   /\ Get(tokens[2]).found
           THEN remove(tokens[2])
           ELSE UNCHANGED vars

NextClients ==
    \/ \E buffer \in Requests : ServerRequest(buffer)
    \/ \E line \in Lines : ParserCommand(line)
    \/ R_sealed
    \/ R_sstables
    \/ R_return
    \/ FlushWorker
    \/ CompactionWorker

SpecClients == Init /\ [][NextClients]_vars

\* C22: a request with an empty key is rejected by the command parser and
\* by the request decoder and server: the engine never receives a put, a
\* remove or a get for the empty key.
C22_EmptyKeyRejected ==
    /\ oracle[EmptyString] = Absent
    /\ rpc # "idle" => rKey # EmptyString

\* C23: the core treats the empty key like any other key on reads: while
\* the empty key has never been put or removed, get("") returns (false, "").
C23_EmptyKeyAbsent ==
    (rpc = "done" /\ rKey = EmptyString /\ oracle[EmptyString] = Absent) =>
        rResult = Absent

\* What a layer holds for key k: << >> when it holds no version of k, else
\* <<v>>.  A memtable holds what was put into it; an SSTable holds the
\* records of its data file.
MemHolds(m, k) ==
    IF k = EmptyString
    THEN IF m.headValue # EmptyString THEN <<m.headValue>> ELSE << >>
    ELSE IF \E i \in 1..Len(m.nodes) : m.nodes[i].key = k
    THEN <<m.nodes[CHOOSE i \in 1..Len(m.nodes) : m.nodes[i].key = k].value>>
    ELSE << >>

FileHolds(file, k) ==
    IF \E i \in 1..Len(file.data) : file.data[i].key = k
    THEN <<file.data[CHOOSE i \in 1..Len(file.data) : file.data[i].key = k].value>>
    ELSE << >>

\* The layers from newest to oldest: the active memtable, the sealed
\* memtables from the back of the queue, the SSTables from the back of the list.
LayersHold(k) ==
    <<MemHolds(activeMemTable, k)>>
    \o [i \in 1..Len(memTables) |-> MemHolds(memTables[Len(memTables) + 1 - i], k)]
    \o [i \in 1..Len(sstables) |-> FileHolds(disk[sstables[Len(sstables) + 1 - i].stem], k)]

\* The answer of the first layer that holds k.
Resolve(k) ==
    LET layers == LayersHold(k)
        holding == {i \in 1..Len(layers) : layers[i] # << >>}
    IN  IF holding = {} THEN Absent
        ELSE LET v == layers[CHOOSE i \in holding : \A j \in holding : i <= j][1]
             IN  IF v = TOMBSTONE THEN Deleted ELSE Pair(TRUE, v)

\* C24: on a fixed state get(k) returns the answer of the first layer that
\* holds k, in the order active memtable, sealed memtables newest first,
\* SSTables from the back of the list: a tombstone in a newer layer hides
\* every older value, and (false, "") is returned only when no layer holds k.
C24_ResolutionOrder == \A k \in Keys : Get(k) = Resolve(k)

\* C25: when a pass appends the merged SSTable, every SSTable of the list
\* that was not in the batch and was created after every SSTable of the
\* batch keeps precedence over the merged one: for a key present in both,
\* get on the SSTables returns the version of the SSTable not in the batch.
C25_MergedBelowNewer ==
    [][(cpc = "append" /\ cpc' = "sleep") =>
          \A i \in 1..Len(sstables), k \in Keys :
              (/\ \A b \in cBatch : NameLess(b, sstables[i].stem)
               /\ FileHolds(disk[sstables[i].stem], k) # << >>
               /\ FileHolds(disk[cStem], k) # << >>
               /\ \A j \in (i + 1)..Len(sstables) :
                      FileHolds(disk[sstables[j].stem], k) = << >>)
              => GetSSTables(sstables', disk, k) = GetSSTables(sstables, disk, k)]_vars

\* C28: the sealed-memtable queue is accessed only under memtables_mtx: the
\* push of a rotation never runs while the flush worker holds the mutex or
\* is reading and popping the queue.
C28_QueueUnderLock ==
    [][(nWrites' # nWrites /\ activeMemTable' = Mem_new) =>
          ~(FlushAccessesQueue \/ FlushHoldsMemtablesMtx)]_vars

(***************************************************************************)
(* C26.  Flush order.                                                      *)
(***************************************************************************)
\* The rotations that sealed the memtables lying in `seals`, in the order
\* of `seals`; 0 marks an entry that no rotation of this process produced.
SealsIn(seals) == SelectSeq(seals, LAMBDA n : n # 0)

Ascending(seq) == \A i, j \in 1..Len(seq) : i < j => seq[i] < seq[j]

\* The memtable the flush worker holds, as a sequence of at most one seal.
Flushing == IF sealOrder.flushing = 0 THEN << >> ELSE <<sealOrder.flushing>>

\* C26: every handle of the list made by a flush, the memtable being
\* flushed and the sealed memtables of the queue lie in the order in which
\* their memtables were sealed: of two flushed memtables, the one sealed
\* later is later in the SSTable list, and a memtable not yet flushed was
\* sealed after every flushed one.
C26_FlushOrder ==
    /\ Len(sealOrder.list) = Len(sstables)
    /\ Len(sealOrder.queue) = Len(memTables)
    /\ (sealOrder.flushing # 0) => memtable_to_flush # NoMemTable
    /\ Ascending(SealsIn(sealOrder.list) \o Flushing \o SealsIn(sealOrder.queue))

\* Two flushed memtables have their handles in the list while a third
\* sealed memtable waits in the queue or is being flushed.
C26_Witness ==
    /\ Len(SealsIn(sealOrder.list)) >= 2
    /\ \/ sealOrder.queue # << >>
       \/ sealOrder.flushing # 0

(***************************************************************************)
(* C27.  Rotation.                                                         *)
(***************************************************************************)
\* The effect the claim gives a completed write of (key, value) on the
\* active memtable and the sealed queue: a put whose insert brings the
\* tracked size to the threshold seals the memtable it wrote at the back of
\* the queue and installs an empty one; any other write stays in the active
\* memtable and leaves the queue alone.
RotationEffect(key, value) ==
    LET m == Mem_put(activeMemTable, key, value)
    IN  IF value # TOMBSTONE /\ Mem_getSize(m) >= MAX_MEMTABLE_SIZE
        THEN /\ memTables' = Append(memTables, m)
             /\ activeMemTable' = Mem_new
        ELSE /\ memTables' = memTables
             /\ activeMemTable' = m

\* C27: every completed put or remove has the effect of RotationEffect for
\* the pair it wrote: put rotates exactly when the size after the insert is
\* at least the threshold, and a rotation appends the memtable just written,
\* unchanged, at the back of the sealed queue and installs an empty active
\* memtable.
C27_RotationSeals ==
    [][nWrites' # nWrites =>
          \E key \in Keys, value \in PutValues \cup {TOMBSTONE} :
              RotationEffect(key, value)]_vars

(***************************************************************************)
(* C29.  The SSTable list and its lock at startup.                         *)
(***************************************************************************)
\* C29: the compaction worker never reads the size of the SSTable list or
\* removes handles from it while the constructor is inside
\* load_existing_sstables, which pushes onto the list and sorts it.
C29_ListUnderLock ==
    [][(CompactionAccessesList /\ cpc' # cpc) => ~LoadAccessesList]_vars

(***************************************************************************)
(* C30.  Nesting of the four mutexes.                                      *)
(***************************************************************************)
\* The mutexes a caller holds in the block it runs next: put, remove and
\* the first block of get lock active_memtable_mtx; the later blocks of get
\* lock memtables_mtx and sstables_mtx, each after the previous lock_guard
\* went out of scope.
CallerLocks ==
    IF rpc = "sealed" THEN {"memtables_mtx"}
    ELSE IF rpc = "sstables" THEN {"sstables_mtx"}
    ELSE IF rpc = "idle" /\ CallersMayCall THEN {"active_memtable_mtx"}
    ELSE {}

\* A faulty variant in which the flush worker calls flush_memtable inside
\* the scope of its lock on memtables_mtx.
FlushLocks_flushInsideScope ==
    (IF fpc \in {"lock", "toWait", "write", "append"} THEN {"memtables_mtx"} ELSE {})
        \cup (IF fpc = "append" THEN {"sstables_mtx"} ELSE {})

\* The mutexes the flush worker holds in the step it runs next:
\* memtables_mtx in the scope of lines 74-88, and sstables_mtx in
\* flush_memtable's append, after that scope was left.
FlushLocks ==
    (IF FlushAccessesQueue \/ FlushHoldsMemtablesMtx THEN {"memtables_mtx"} ELSE {})
        \cup (IF fpc = "append" THEN {"sstables_mtx"} ELSE {})

\* The compaction worker locks sstables_mtx in the wait predicate (line
\* 124), where perform_compaction takes the handles (line 144) and where it
\* appends the merged handle (line 220).
CompactionTakesSstablesMtx == CompactionAccessesList \/ cpc = "append"

\* The mutexes the compaction worker holds in the step it runs next:
\* compaction_mtx in the scope of lines 122-134, which spans the wait,
\* perform_compaction and the sleep, and sstables_mtx inside it.
CompactionLocks ==
    (IF cpc = "lock" \/ CompactionHoldsCompactionMtx THEN {"compaction_mtx"} ELSE {})
        \cup (IF CompactionTakesSstablesMtx THEN {"sstables_mtx"} ELSE {})

\* C30 as claimed: no thread holds two mutexes at once, except the
\* compaction worker inside its wait predicate.
C30_OnlyPredicateNests ==
    /\ Cardinality(CallerLocks) <= 1
    /\ Cardinality(FlushLocks) <= 1
    /\ Cardinality(CompactionLocks) >= 2 => cpc = "lock"

\* C30, amended: callers and the flush worker never hold two mutexes at
\* once; the compaction worker holds compaction_mtx from its wait to the end
\* of its sleep and nests sstables_mtx, and no other mutex, inside it: in
\* the wait predicate, when the pass takes the oldest handles and when it
\* appends the merged handle.
C30_CompactionNests ==
    /\ Cardinality(CallerLocks) <= 1
    /\ Cardinality(FlushLocks) <= 1
    /\ CompactionLocks \subseteq {"compaction_mtx", "sstables_mtx"}
    /\ "sstables_mtx" \in CompactionLocks => "compaction_mtx" \in CompactionLocks
    /\ Cardinality(CompactionLocks) >= 2 <=> cpc \in {"lock", "take", "append"}

\* A pass is about to append its merged handle, holding compaction_mtx and
\* taking sstables_mtx, while the flush worker appends a handle of its own.
C30_Witness ==
    /\ cpc = "append"
    /\ CompactionLocks = {"compaction_mtx", "sstables_mtx"}
    /\ fpc = "append"
    /\ FlushLocks = {"sstables_mtx"}

(***************************************************************************)
(* C31.  Deadlock freedom of the mutexes.                                  *)
(***************************************************************************)
Threads == {"reader", "writer", "flush", "compaction"}

\* A faulty variant in which flush_memtable locks compaction_mtx, inside
\* the scope of sstables_mtx, before it notifies compaction_cv.
LockSeq_flushLocksCompaction(t) ==
    IF t = "reader"
    THEN IF rpc = "sealed" THEN <<"memtables_mtx">>
         ELSE IF rpc = "sstables" THEN <<"sstables_mtx">>
         ELSE IF rpc = "idle" /\ CallersMayCall THEN <<"active_memtable_mtx">>
         ELSE << >>
    ELSE IF t = "writer"
    THEN IF CallersMayWrite THEN <<"active_memtable_mtx">> ELSE << >>
    ELSE IF t = "flush"
    THEN IF fpc \in {"lock", "toWait"} THEN <<"memtables_mtx">>
         ELSE IF fpc = "append" THEN <<"sstables_mtx", "compaction_mtx">>
         ELSE << >>
    ELSE IF cpc \in {"lock", "take", "append"} THEN <<"compaction_mtx", "sstables_mtx">>
         ELSE IF cpc \in {"toWait", "merge", "delete", "sleep"} THEN <<"compaction_mtx">>
         ELSE << >>

\* The mutexes thread t locks in the step it runs next, in the order in
\* which the code acquires them; a later one is acquired inside the scope
\* of the earlier ones.
LockSeq(t) ==
    IF t = "reader"
    THEN IF rpc = "sealed" THEN <<"memtables_mtx">>
         ELSE IF rpc = "sstables" THEN <<"sstables_mtx">>
         ELSE IF rpc = "idle" /\ CallersMayCall THEN <<"active_memtable_mtx">>
         ELSE << >>
    ELSE IF t = "writer"
    THEN IF CallersMayWrite THEN <<"active_memtable_mtx">> ELSE << >>
    ELSE IF t = "flush"
    THEN IF fpc \in {"lock", "toWait"} THEN <<"memtables_mtx">>
         ELSE IF fpc = "append" THEN <<"sstables_mtx">>
         ELSE << >>
    ELSE IF cpc \in {"lock", "take", "append"} THEN <<"compaction_mtx", "sstables_mtx">>
         ELSE IF cpc \in {"toWait", "merge", "delete", "sleep"} THEN <<"compaction_mtx">>
         ELSE << >>

\* How many mutexes of LockSeq(t) thread t holds already when the step
\* begins: the flush worker about to block in cv.wait holds memtables_mtx,
\* the compaction worker past its wait holds compaction_mtx.
HeldAtStart(t) ==
    IF t = "flush" /\ FlushHoldsMemtablesMtx THEN 1
    ELSE IF t = "compaction" /\ CompactionHoldsCompactionMtx THEN 1
    ELSE 0

\* The points inside its step at which thread t may stand: it holds the
\* first p mutexes of LockSeq(t) and, when there is a next one, asks for it.
LockPoints(t) == HeldAtStart(t)..Len(LockSeq(t))

HeldAt(t, p) == {LockSeq(t)[i] : i \in 1..p}

\* The threads of S stand at the points p, no mutex is held twice, and each
\* thread of S asks for a mutex that another thread of S holds.
Deadlocked(S, p) ==
    /\ S # {}
    /\ \A t \in S : p[t] \in LockPoints(t) /\ p[t] < Len(LockSeq(t))
    /\ \A t, u \in S : t # u => HeldAt(t, p[t]) \cap HeldAt(u, p[u]) = {}
    /\ \A t \in S : \E u \in S \ {t} : LockSeq(t)[p[t] + 1] \in HeldAt(u, p[u])

\* C31: in no reachable state can the threads stand inside their critical
\* sections so that each thread of a set waits for a mutex held by another
\* thread of the set: the lock acquisitions of callers, the flush worker and
\* the compaction worker form no cycle.  Only a thread with a mutex left to
\* acquire can wait, and it waits holding none or one.
C31_NoLockCycle ==
    \A S \in SUBSET {t \in Threads : HeldAtStart(t) < Len(LockSeq(t))} :
        \A p \in [S -> 0..1] : ~Deadlocked(S, p)

\* The flush worker and the compaction worker both ask for sstables_mtx,
\* the latter holding compaction_mtx, while a reader asks for memtables_mtx.
C31_Witness ==
    /\ fpc = "append"
    /\ cpc = "take"
    /\ LockSeq("compaction") = <<"compaction_mtx", "sstables_mtx">>
    /\ LockSeq("flush") = <<"sstables_mtx">>
    /\ LockSeq("reader") = <<"memtables_mtx">>

(***************************************************************************)
(* C32.  Sealed memtables are immutable.                                   *)
(***************************************************************************)
\* C32: a memtable keeps its contents from its sealing to its destruction:
\* a memtable that is in the sealed queue before and after a step is the
\* same, the memtable the flush worker pops is the one that was in the
\* queue, and the memtable the worker holds does not change while it
\* writes and appends.
C32_SealedImmutable ==
    [][/\ \A i \in 1..Len(memTables), j \in 1..Len(memTables') :
              (sealOrder.queue[i] # 0 /\ sealOrder'.queue[j] = sealOrder.queue[i]) =>
                  memTables'[j] = memTables[i]
       /\ \A i \in 1..Len(memTables) :
              (sealOrder.queue[i] # 0 /\ sealOrder'.flushing = sealOrder.queue[i]) =>
                  memtable_to_flush' = memTables[i]
       /\ (sealOrder.flushing # 0 /\ sealOrder'.flushing = sealOrder.flushing) =>
              memtable_to_flush' = memtable_to_flush]_vars

\* A caller wrote to the active memtable while one sealed memtable waits in
\* the queue and another is being flushed.
C32_Witness ==
    /\ memTables # << >>
    /\ sealOrder.flushing # 0
    /\ activeMemTable # Mem_new

(***************************************************************************)
(* C33.  Shutdown and the pending flush work.                              *)
(***************************************************************************)
\* C33: the destructor returns with an empty sealed queue: the flush worker
\* has written every memtable that was sealed when the shutdown began.
C33_ShutdownFlushesQueue == dpc = "destroyed" => memTables = << >>

(***************************************************************************)
(* C34.  Size bound of the active memtable.                                *)
(***************************************************************************)
\* C34: between calls the tracked size of the active memtable is below the
\* rotation threshold, whatever puts and removes were made.
C34_ActiveBelowThreshold == Mem_getSize(activeMemTable) < MAX_MEMTABLE_SIZE

(***************************************************************************)
(* C35.  A put of the tombstone sentinel and remove.                       *)
(***************************************************************************)
\* Callers that also pass the sentinel to put.
TombstoneCallers ==
    \/ \E key \in RemoveKeys, value \in PutValues \cup {TOMBSTONE} : put(key, value)
    \/ \E key \in RemoveKeys : remove(key)

NextTombstone ==
    \/ TombstoneCallers
    \/ FlushWorker
    \/ CompactionWorker

SpecTombstone == Init /\ [][NextTombstone]_vars

\* The newest version of key k among the files of `tables` is a tombstone.
NewestIsTombstone(tables, dsk, k) ==
    \E i \in 1..Len(tables) :
        /\ FileHolds(dsk[tables[i].stem], k) = <<TOMBSTONE>>
        /\ \A j \in (i + 1)..Len(tables) : FileHolds(dsk[tables[j].stem], k) = << >>

\* C35: a write of the tombstone for k, made by remove(k) or by
\* put(k, TOMBSTONE), is answered by get(k) with (false, TOMBSTONE) right
\* after the call, and a compaction pass whose batch has the tombstone as
\* the newest version of k writes no record for k.  The callers of
\* SpecTombstone write KeyA only, so a completed write whose history entry
\* is Deleted is a tombstone write of KeyA.
C35_TombstonePutIsRemove ==
    [][/\ (nWrites' # nWrites /\ oracle'[KeyA] = Deleted) =>
            GetIn(activeMemTable', memTables', sstables', disk', KeyA) = Deleted
       /\ cpc = "merge" =>
            \A k \in RemoveKeys :
                NewestIsTombstone(tables_to_compact, disk, k) =>
                    ~MemWrote(MergedMemTable(tables_to_compact, disk), k)]_vars

(***************************************************************************)
(* C36.  Persistence of a write to the empty key.                          *)
(***************************************************************************)
\* C36: when the memtable the flush worker writes holds a write to the
\* empty key, the SSTable written from it has the record ("", v) of that
\* write.
C36_EmptyKeyPersisted ==
    [][(fpc = "write" /\ fpc' = "append" /\ MemWrote(memtable_to_flush, EmptyString)) =>
          FileHolds(disk'[fStem'], EmptyString) = MemHolds(memtable_to_flush, EmptyString)]_vars

(***************************************************************************)
(* C37.  Size accounting.                                                  *)
(***************************************************************************)
\* Whether key k has a node of its own in memtable m.
HasNode(m, k) == \E i \in 1..Len(m.nodes) : m.nodes[i].key = k

\* The counter of the active memtable after an upsert of (k, v) is not
\* below the counter before it, grows only if k had no node, and is
\* unchanged if k had one.
CounterStep(k, v) ==
    LET m == Mem_put(activeMemTable, k, v)
    IN  /\ Mem_getSize(m) >= Mem_getSize(activeMemTable)
        /\ Mem_getSize(m) > Mem_getSize(activeMemTable) => ~HasNode(activeMemTable, k)
        /\ HasNode(activeMemTable, k) => Mem_getSize(m) = Mem_getSize(activeMemTable)

\* C37: the tracked size grows only by the insert of a key not yet
\* present, an overwrite with a value or with the tombstone leaves it
\* unchanged, it never decreases, and a put that rotates is a put that
\* grew it.
C37_SizeAccounting ==
    [][/\ \A k \in Keys, v \in PutValues \cup {TOMBSTONE} : CounterStep(k, v)
       /\ (nWrites' # nWrites /\ activeMemTable' = Mem_new) =>
            \E k \in Keys, v \in PutValues :
                /\ oracle'[k] = Pair(TRUE, v)
                /\ Mem_getSize(Mem_put(activeMemTable, k, v)) > Mem_getSize(activeMemTable)]_vars

\* The counter part of C37 alone.
CounterOnly == \A k \in Keys, v \in PutValues \cup {TOMBSTONE} : CounterStep(k, v)

(***************************************************************************)
(* SkipList with its towers.  base is the base level as above; upper[h]    *)
(* is the list of keys of the NORMAL nodes of level h (1 = right above the *)
(* base), whose value is always "".  Index 0 of a level is its head        *)
(* sentinel.  current_level is Len(upper).  A node's down pointer leads to *)
(* the node of the same put one level below, found here by its key; the    *)
(* up pointer likewise.                                                    *)
(***************************************************************************)
MAX_LEVEL == 16

Tower_new == [base |-> SL_new, upper |-> << >>]

current_level(t) == Len(t.upper)

\* The keys of the NORMAL nodes of level h, in list order (0: the base).
KeysAt(t, h) ==
    IF h = 0 THEN [i \in 1..Len(t.base.nodes) |-> t.base.nodes[i].key] ELSE t.upper[h]

\* The position of the node with key k on a level (0: no such node).
IndexOf(keys, k) ==
    IF \E i \in 1..Len(keys) : keys[i] = k
    THEN CHOOSE i \in 1..Len(keys) : keys[i] = k
    ELSE 0

\* cur->down of node cur of level h > 0; the head's down is the head below.
Down(t, h, cur) == IF cur = 0 THEN 0 ELSE IndexOf(KeysAt(t, h - 1), KeysAt(t, h)[cur])

\* Whether node cur of level h has an up pointer.
HasUp(t, h, cur) ==
    /\ h < current_level(t)
    /\ cur = 0 \/ IndexOf(KeysAt(t, h + 1), KeysAt(t, h)[cur]) # 0

\* cur->up of a node that has one.
Up(t, h, cur) == IF cur = 0 THEN 0 ELSE IndexOf(KeysAt(t, h + 1), KeysAt(t, h)[cur])

\* The inner loop of search on one level.
RECURSIVE LevelAdvance(_, _, _)
LevelAdvance(keys, cur, key) ==
    IF cur + 1 <= Len(keys) /\ StrLeq(keys[cur + 1], key)
    THEN LevelAdvance(keys, cur + 1, key)
    ELSE cur

\* The outer loop of search: advance, then go down until there is no level
\* below.
RECURSIVE Descend(_, _, _, _)
Descend(t, h, cur, key) ==
    LET stop == LevelAdvance(KeysAt(t, h), cur, key)
    IN  IF h > 0 THEN Descend(t, h - 1, Down(t, h, stop), key) ELSE stop

\* A faulty search that stops on the top level.
Tower_search_noDescent(t, key) == LevelAdvance(KeysAt(t, current_level(t)), 0, key)

\* search: from the head of the top level to a node of the base level.
Tower_search(t, key) == Descend(t, current_level(t), 0, key)

Tower_get(t, key) ==
    LET cur == Tower_search(t, key)
    IN  IF NodeKey(t.base, cur) = key
        THEN Pair(TRUE, NodeValue(t.base, cur))
        ELSE Pair(FALSE, EmptyString)

\* A faulty walk that stays on the predecessor.
WalkBack_none(t, h, cur) == cur

\* while (current->up == nullptr) current = current->prev;
RECURSIVE WalkBack(_, _, _)
WalkBack(t, h, cur) ==
    IF cur = 0 \/ HasUp(t, h, cur) THEN cur ELSE WalkBack(t, h, cur - 1)

\* The promotion loop of put: i promotions made so far, current the node
\* of level i the search or the last promotion left, heads the number of
\* coin flips below P in a row.
RECURSIVE Promote(_, _, _, _, _)
Promote(t, key, i, current, heads) ==
    IF i < MAX_LEVEL /\ i < heads
    THEN LET grown == IF i >= current_level(t)
                      THEN [t EXCEPT !.upper = Append(@, << >>)]
                      ELSE t
             above == Up(grown, i, WalkBack(grown, i, current))
             linked == [grown EXCEPT !.upper[i + 1] = InsertAfter(@, above, key)]
         IN  Promote(linked, key, i + 1, above, heads)
    ELSE t

Tower_put(t, key, value, heads) ==
    LET current == Tower_search(t, key)
    IN  IF NodeKey(t.base, current) = key
        THEN IF current = 0
             THEN [t EXCEPT !.base.headValue = value]
             ELSE [t EXCEPT !.base.nodes[current].value = value]
        ELSE Promote([t EXCEPT !.base.nodes = InsertAfter(@, current, [key |-> key, value |-> value]),
                               !.base.totalSize = @ + KVSize(key, value)],
                     key, 0, current, heads)

\* begin() .. end(): down from the top head to the base head, then along
\* the base level up to the tail.
Tower_entries(t) == SL_entries(t.base)

(***************************************************************************)
(* A skip list on its own: upserts of the empty key and of three keys,     *)
(* with any run of coin flips.                                             *)
(***************************************************************************)
KeyB == <<98>>
KeyC == <<99>>
TowerKeys == {EmptyString, KeyA, KeyB, KeyC}
TowerValues == PutValues \cup {TOMBSTONE}
\* Heads in a row that one put may draw.
MaxHeads == 3
Heads == 0..MaxHeads

InitSkipList ==
    /\ activeMemTable = Tower_new
    /\ memTables = << >>
    /\ sstables = << >>
    /\ disk = [s \in Stems |-> NoFile]
    /\ clock = 0
    /\ sameMs = FALSE
    /\ running = TRUE
    /\ faulty = FALSE
    /\ fpc = "loop"
    /\ memtable_to_flush = NoMemTable
    /\ fStem = 0
    /\ cpc = "loop"
    /\ tables_to_compact = << >>
    /\ cStem = 0
    /\ dpc = "alive"
    /\ rpc = "idle"
    /\ rKey = EmptyString
    /\ rResult = Absent
    /\ rReads = [keys |-> 0, values |-> 0]
    /\ rAllowed = {}
    /\ oracle = [k \in TowerKeys |-> Absent]
    /\ flushedLast = {}
    /\ cBefore = [k \in Keys |-> Absent]
    /\ cFromBatch = {}
    /\ cBatch = {}
    /\ cWritten = {}
    /\ nWrites = 0
    /\ sealOrder = [sealed |-> 0, queue |-> << >>, flushing |-> 0, list |-> << >>]
    /\ restarted = FALSE

\* SkipList::put(key, value); the coin is flipped only for a new key.
T_put(key, value, flips) ==
    /\ IF NodeKey(activeMemTable.base, Tower_search(activeMemTable, key)) = key
       THEN activeMemTable' = Tower_put(activeMemTable, key, value, 0)
       ELSE \E heads \in flips : activeMemTable' = Tower_put(activeMemTable, key, value, heads)
    /\ oracle' = [oracle EXCEPT ![key] = Pair(TRUE, value)]
    /\ UNCHANGED <<memTables, sstables, disk, clock, sameMs, running, faulty, flushVars,
                   compactVars, dpc, readerVars, flushedLast, passVars, nWrites, sealOrder,
                   restarted>>

NextSkipList == \E key \in TowerKeys, value \in TowerValues : T_put(key, value, Heads)

SpecSkipList == InitSkipList /\ [][NextSkipList]_vars

\* C38: after any upserts and any coin flips, the lookup of a non-empty key
\* returns (true, value of its last upsert), and (false, "") for a
\* non-empty key never upserted.
C38_RefinesFiniteMap ==
    \A k \in TowerKeys \ {EmptyString} : Tower_get(activeMemTable, k) = oracle[k]

\* "a" upserted and overwritten with the tombstone under a tower of two
\* levels, "b" upserted, "c" never upserted.
C38_Witness ==
    /\ current_level(activeMemTable) >= 2
    /\ IndexOf(KeysAt(activeMemTable, 2), KeyB) # 0
    /\ oracle[KeyA] = Pair(TRUE, TOMBSTONE)
    /\ Tower_get(activeMemTable, KeyA) = Pair(TRUE, TOMBSTONE)
    /\ oracle[KeyB].found
    /\ oracle[KeyC] = Absent
    /\ Tower_get(activeMemTable, KeyC) = Absent

(***************************************************************************)
(* C39.  Order invariant of the skip list.                                 *)
(***************************************************************************)
StrictlyAscending(keys) == \A i \in 1..(Len(keys) - 1) : StrLess(keys[i], keys[i + 1])

\* C39: every level holds its keys in strictly ascending order between
\* its sentinels, every key of an upper level is on the level below, the
\* base level holds each upserted non-empty key exactly once and no other
\* key, and iteration yields the base-level entries, tombstones included,
\* in ascending key order with the value last upserted.
C39_OrderInvariant ==
    /\ \A h \in 0..current_level(activeMemTable) :
            /\ StrictlyAscending(KeysAt(activeMemTable, h))
            /\ h > 0 => \A i \in 1..Len(KeysAt(activeMemTable, h)) :
                            IndexOf(KeysAt(activeMemTable, h - 1), KeysAt(activeMemTable, h)[i]) # 0
    /\ \A k \in TowerKeys \ {EmptyString} :
            Cardinality({i \in 1..Len(activeMemTable.base.nodes) :
                            activeMemTable.base.nodes[i].key = k})
                = IF oracle[k].found THEN 1 ELSE 0
    /\ LET entries == Tower_entries(activeMemTable)
       IN  /\ StrictlyAscending([i \in 1..Len(entries) |-> entries[i].key])
           /\ \A i \in 1..Len(entries) :
                    /\ entries[i].key \in TowerKeys \ {EmptyString}
                    /\ oracle[entries[i].key] = Pair(TRUE, entries[i].value)
           /\ Len(entries) = Cardinality({k \in TowerKeys \ {EmptyString} : oracle[k].found})

\* Three keys upserted out of order, "c" last and promoted past "b", "b" a
\* tombstone on the base level only.
C39_Witness ==
    /\ Len(Tower_entries(activeMemTable)) = 3
    /\ oracle[KeyB] = Pair(TRUE, TOMBSTONE)
    /\ current_level(activeMemTable) >= 2
    /\ KeysAt(activeMemTable, 1) = <<KeyA, KeyC>>
    /\ KeysAt(activeMemTable, 2) = <<KeyC>>

(***************************************************************************)
(* C40.  Height of the skip list: two keys, any run of heads the loop can  *)
(* use and one more.                                                       *)
(***************************************************************************)
TallKeys == {KeyA, KeyB}
LongRuns == 0..(MAX_LEVEL + 1)

NextTall == \E key \in TallKeys : T_put(key, <<49>>, LongRuns)

SpecTall == InitSkipList /\ [][NextTall]_vars

\* The lists the skip list has allocated: the base level and the levels
\* above it.
Levels(t) == current_level(t) + 1

\* C40: the skip list never has more than 16 levels; no inserts and coin
\* flips make it allocate a 17th.
C40_HeightCap == Levels(activeMemTable) <= MAX_LEVEL

\* The levels above the base alone never exceed MAX_LEVEL.
UpperLevelsCap == current_level(activeMemTable) <= MAX_LEVEL

====
